---------------------------- MODULE Spec2Model ----------------------------
(***************************************************************************)
(* State-machine model of the OSI core of the EQOS/XPCS Ethernet driver:   *)
(*   - osi/dma/eqos_dma.c   DMA channel configuration and the functional   *)
(*                          safety register shadow (safety_writel,         *)
(*                          safety_init, validate_dma_regs)                *)
(*   - osi/core/eqos_mmc.c  MMC statistics accumulation                    *)
(*                                                                         *)
(* A 32-bit register is modelled as the set of its bit groups that are 1:  *)
(* "&" is \cap, "|" is \cup, "& ~m" is set difference.  Three bit groups   *)
(* are distinguished per register:                                         *)
(*   b0  the bits the channel configurator ORs in (TIE|RIE, PBLX8,         *)
(*       OSF|TXPBL|TSE, RXPBL)                                             *)
(*   b1  further bits covered by the safety mask (for INTR_ENA the debug   *)
(*       interrupt enables AIE|FBEE|RBUE|TBUE|NIE, for RX_CTRL the part of *)
(*       the buffer-size field covered by the mask)                        *)
(*   b2  bits not covered by the safety mask (reserved / self-clearing)    *)
(***************************************************************************)
EXTENDS Integers, Sequences, FiniteSets

(* ------------------------------ bounds -------------------------------- *)

\* Number of DMA channels of the model (the MAC has 8).
MaxChans == 2

\* Number of hardware-mutating operations explored in one behaviour.
MaxOps == 3

\* What a plain write to a tracked register takes of that budget (it has the
\* most successors of all operations).
PlainWriteCost == 2

\* Width in bits of an MMC hardware counter register ("unsigned int", 32 bits
\* in the driver); unsigned long long has twice that width, unsigned long
\* has that width on an ILP32 build and twice that width on an LP64 build.
MmcRegBits == 1

\* Number of eqos_read_mmc passes explored in one behaviour.
MaxPasses == 4

\* The retry ceiling of the XPCS poll loops ("unsigned int retry = 1000"),
\* scaled down; the loops are modelled for any ceiling.
retry == 3

(* ----------------------------- registers ------------------------------ *)

Bits == {"b0", "b1", "b2"}

Word == SUBSET Bits

OSI_NULL == "NULL"

OSI_UNLOCKED == "UNLOCKED"

OSI_LOCKED == "LOCKED"

OSI_ENABLE == "ENABLE"

OSI_DISABLE == "DISABLE"

Chans == 0 .. (MaxChans - 1)

\* The six monitored register classes, in the order of the index enum.
Classes == <<"CTRL", "TX_CTRL", "RX_CTRL", "TDRL", "RDRL", "INTR_ENA">>

ClassSet == {Classes[k] : k \in 1 .. Len(Classes)}

\* Index of the first slot of each class (enum func_safety_dma_regs lays the
\* classes out one after the other, one slot per channel).
EQOS_DMA_CH0_CTRL_IDX == 0

EQOS_DMA_CH0_TX_CTRL_IDX == EQOS_DMA_CH0_CTRL_IDX + MaxChans

EQOS_DMA_CH0_RX_CTRL_IDX == EQOS_DMA_CH0_TX_CTRL_IDX + MaxChans

EQOS_DMA_CH0_TDRL_IDX == EQOS_DMA_CH0_RX_CTRL_IDX + MaxChans

EQOS_DMA_CH0_RDRL_IDX == EQOS_DMA_CH0_TDRL_IDX + MaxChans

EQOS_DMA_CH0_INTR_ENA_IDX == EQOS_DMA_CH0_RDRL_IDX + MaxChans

EQOS_MAX_DMA_SAFETY_REGS == EQOS_DMA_CH0_INTR_ENA_IDX + MaxChans

Slots == EQOS_DMA_CH0_CTRL_IDX .. (EQOS_MAX_DMA_SAFETY_REGS - 1)

ClassBase(c) ==
    CASE c = "CTRL" -> EQOS_DMA_CH0_CTRL_IDX
      [] c = "TX_CTRL" -> EQOS_DMA_CH0_TX_CTRL_IDX
      [] c = "RX_CTRL" -> EQOS_DMA_CH0_RX_CTRL_IDX
      [] c = "TDRL" -> EQOS_DMA_CH0_TDRL_IDX
      [] c = "RDRL" -> EQOS_DMA_CH0_RDRL_IDX
      [] c = "INTR_ENA" -> EQOS_DMA_CH0_INTR_ENA_IDX

\* base + EQOS_DMA_CHX_<class>(chan): the address of a channel register.
RegAddr(c, chan) == <<c, chan>>

Regs == {RegAddr(c, ch) : c \in ClassSet, ch \in Chans}

\* EQOS_DMA_CHX_<class>_MASK: the bits of a register the validator compares.
EQOS_DMA_CHX_MASK(c) ==
    CASE c \in {"TDRL", "RDRL"} -> {"b0"}
      [] OTHER -> {"b0", "b1"}

EQOS_DMA_CHX_INTR_TIE_RIE == {"b0"}

EQOS_DMA_CHX_INTR_DEBUG == {"b1"}

EQOS_DMA_CHX_CTRL_PBLX8 == {"b0"}

EQOS_DMA_CHX_TX_CTRL_CFG == {"b0"}

EQOS_DMA_CHX_RX_CTRL_RXPBL_RECOMMENDED == {"b0"}

EQOS_DMA_CHX_RBSZ_MASK == {"b1", "b2"}

\* Values of osi_dma->rx_buf_len << EQOS_DMA_CHX_RBSZ_SHIFT the model offers.
RxBufLens == {{}, {"b1", "b2"}}

\* Active channel lists (osi_dma->dma_chans[0 .. num_dma_chans-1]) the model
\* offers: every duplicate-free list of in-range channels.
RECURSIVE ListsOver(_, _)
ListsOver(S, n) ==
    IF n = 0 THEN {<<>>}
    ELSE LET shorter == ListsOver(S, n - 1)
         IN  shorter \cup
             {Append(l, x) : l \in {m \in shorter : Len(m) = n - 1}, x \in S}

Range(l) == {l[k] : k \in 1 .. Len(l)}

ChanLists == {l \in ListsOver(Chans, MaxChans) : Cardinality(Range(l)) = Len(l)}

NONE == "none"

OK == 0

FAIL == -1

\* The result slot of a call: empty until the call returns, then the value.
NoReturn == <<>>

Returned(x) == <<x>>

VARIABLES
    hw,               \* the memory-mapped DMA channel registers
    reg_addr,         \* eqos_dma_safety_config.reg_addr[]
    reg_mask,         \* eqos_dma_safety_config.reg_mask[]
    reg_val,          \* eqos_dma_safety_config.reg_val[]
    dma_safety_lock,  \* eqos_dma_safety_config.dma_safety_lock
    dma_chans,        \* osi_dma->dma_chans[0 .. num_dma_chans-1]
    rx_buf_len,       \* osi_dma->rx_buf_len << EQOS_DMA_CHX_RBSZ_SHIFT
    w_pc, w_val, w_idx,        \* a context inside eqos_dma_safety_writel
    v_pc, v_i, v_ret, v_reads, \* a context inside eqos_validate_dma_regs
    i_pc, i_k,                 \* a context inside eqos_init_dma_channel
    ops,              \* hardware-mutating operations started so far
    last_op,          \* history: the last completed hardware-mutating operation
    v_prev,           \* history: last_op when the running/last validate began
    v_stale,          \* history: registers or table changed since it began
    mmc,              \* osi_core->mmc, the accumulated counters
    abi,              \* the build's data model, which fixes sizeof(unsigned long)
    m_k,              \* updates of the running eqos_read_mmc pass done so far
    m_passes,         \* eqos_read_mmc passes started so far
    m_own,            \* history: per counter, the sum of the values read from
                      \* its own register since the last reset
    m_ovf,            \* history: some sum left the range of unsigned long
    m_pass_ovf,       \* history: ... during the running/last pass
    m_pass_rst,       \* history: MMC_CNTRL.CNTRST writes of the running/last pass
    m_rst_tick,       \* history: flips at every eqos_reset_mmc
    mmc_cntrl,        \* EQOS_MMC_CNTRL
    m_rst_writes,     \* history: the values the last eqos_reset_mmc called on
                      \* its own wrote to EQOS_MMC_CNTRL
    m_rst_dirty,      \* history: some counter was not zero when it was called
    x_mii_ctrl,       \* XPCS_SR_MII_CTRL
    x_an_sts,         \* XPCS_VR_MII_AN_INTR_STS
    x_dig_ctrl1,      \* XPCS_VR_XS_PCS_DIG_CTRL1
    x_pcs_ctrl2,      \* XPCS_SR_XS_PCS_CTRL2
    x_an_ctrl,        \* XPCS_SR_AN_CTRL
    x_op, x_pc,       \* the running xpcs_init / xpcs_start call and its position
    x_count,          \* the local count of the running poll loop
    x_status,         \* the local status / an_status of xpcs_start
    x_ret,            \* the result of the last xpcs_init / xpcs_start call
    x_log,            \* history: the milestones of the call, in order
    x_reads,          \* history: status reads of the running/last poll loop
    x_delays,         \* history: udelay calls of the running/last poll loop
    x_start_fail,     \* history: per kind of failure, the value xpcs_start
                      \* last returned for it
    x_eee,            \* XPCS_VR_XS_PCS_EEE_MCTRL0
    e_arg,            \* history: en_dis of the last xpcs_eee call
    e_prev,           \* history: the register before the last xpcs_eee call
    e_ret,            \* the result of the last xpcs_eee call
    e_reads, e_writes,\* history: register reads and writes of that call
    e_pc,             \* the position of the running xpcs_eee call
    e_val,            \* its local val
    slot_ctrl,        \* EQOS_DMA_CHX_SLOT_CTRL(chan), per channel
    s_arg,            \* history: the arguments of the last eqos_config_slot
    s_prev,           \* history: slot_ctrl before the last eqos_config_slot
    use_riwt,         \* osi_dma->use_riwt
    rx_riwt,          \* osi_dma->rx_riwt, microseconds
    rx_wdt            \* EQOS_DMA_CHX_RX_WDT(chan), per channel

dmaVars == <<hw, reg_addr, reg_mask, reg_val, dma_safety_lock, dma_chans,
             rx_buf_len, w_pc, w_val, w_idx, v_pc, v_i, v_ret, v_reads,
             i_pc, i_k, ops, last_op, v_prev, v_stale>>

mmcVars == <<mmc, abi, m_k, m_passes, m_own, m_ovf, m_pass_ovf, m_pass_rst,
             m_rst_tick, mmc_cntrl, m_rst_writes, m_rst_dirty>>

xpcsVars == <<x_mii_ctrl, x_an_sts, x_dig_ctrl1, x_pcs_ctrl2, x_an_ctrl, x_op,
              x_pc, x_count, x_status, x_ret, x_log, x_reads, x_delays,
              x_start_fail>>

eeeVars == <<x_eee, e_arg, e_prev, e_ret, e_reads, e_writes, e_pc, e_val>>

slotVars == <<slot_ctrl, s_arg, s_prev>>

wdtVars == <<use_riwt, rx_riwt, rx_wdt>>

vars == <<dmaVars, mmcVars, xpcsVars, eeeVars, slotVars, wdtVars>>

(* ------------------------- register facade ---------------------------- *)

\* osi_readl: a read of a memory-mapped register.
osi_readl(h, a) == h[a]

\* osi_writel / osi_writela: a write of a memory-mapped register.
osi_writel(h, val, a) == [h EXCEPT ![a] = val]

(* --------------------- eqos_dma_safety_writel ------------------------- *)

\* Line 66 with the unmasked value stored.
SafetyShadow_Unmasked(val, mask) == val

\* Line 66: the value mirrored into reg_val[idx].
SafetyShadow(val, mask) == val \cap mask

\* eqos_dma_safety_writel executed without interruption, on the pair
\* st = [hw, val] (the register file and reg_val[]).
SafetyWritel(st, mask, val, a, idx) ==
    [hw  |-> osi_writel(st.hw, val, a),
     val |-> [st.val EXCEPT ![idx] = SafetyShadow(val, mask[idx])]]

(* ----------------------- eqos_dma_safety_init ------------------------- *)

\* Lines 100-102 left out: the slot addresses stay as they were.
SafetyInitClear_Keep == reg_addr

\* Lines 100-102: every slot address set to OSI_NULL.
SafetyInitClear == [i \in Slots |-> OSI_NULL]

\* The register class whose slot for channel idx is slot i (none: NONE).
ClassAt(i, idx) ==
    IF \E c \in ClassSet : ClassBase(c) + idx = i
    THEN CHOOSE c \in ClassSet : ClassBase(c) + idx = i
    ELSE NONE

\* Lines 109-120: the six slot addresses of channel idx.
PopulateAddr(addr, idx) ==
    [i \in Slots |-> IF ClassAt(i, idx) # NONE
                     THEN RegAddr(ClassAt(i, idx), idx)
                     ELSE addr[i]]

\* Lines 122-133: the six slot masks of channel idx.
PopulateMask(mask, idx) ==
    [i \in Slots |-> IF ClassAt(i, idx) # NONE
                     THEN EQOS_DMA_CHX_MASK(ClassAt(i, idx))
                     ELSE mask[i]]

\* Lines 104-134 for the channels chans[k .. Len(chans)], on tbl = [addr, mask].
RECURSIVE PopulateFrom(_, _, _)
PopulateFrom(tbl, chans, k) ==
    IF k > Len(chans) THEN tbl
    ELSE PopulateFrom([addr |-> PopulateAddr(tbl.addr, chans[k]),
                       mask |-> PopulateMask(tbl.mask, chans[k])],
                      chans, k + 1)

\* Lines 138-142 for one slot: skipped when unpopulated, else seeded with the
\* masked current hardware value.
SeedSlot(val, addr, mask, h, i) ==
    IF addr[i] = OSI_NULL THEN val
    ELSE [val EXCEPT ![i] = osi_readl(h, addr[i]) \cap mask[i]]

\* Lines 137-143: the seeding loop over all slots.
SeedAll(val, addr, mask, h) ==
    [i \in Slots |-> SeedSlot(val, addr, mask, h, i)[i]]

(* -------------------- eqos_configure_dma_channel ---------------------- *)

\* Lines 182-187: interrupt enable, TIE | RIE, through the shadow-write path.
ConfigIntrEna(st, mask, chan) ==
    SafetyWritel(st, mask,
                 osi_readl(st.hw, RegAddr("INTR_ENA", chan))
                     \cup EQOS_DMA_CHX_INTR_TIE_RIE,
                 RegAddr("INTR_ENA", chan), EQOS_DMA_CH0_INTR_ENA_IDX + chan)

\* Lines 190-195: 8xPBL mode.
ConfigCtrl(st, mask, chan) ==
    SafetyWritel(st, mask,
                 osi_readl(st.hw, RegAddr("CTRL", chan))
                     \cup EQOS_DMA_CHX_CTRL_PBLX8,
                 RegAddr("CTRL", chan), EQOS_DMA_CH0_CTRL_IDX + chan)

\* Lines 198-209: transmit control, OSF | TXPBL | TSE.
ConfigTxCtrl(st, mask, chan) ==
    SafetyWritel(st, mask,
                 osi_readl(st.hw, RegAddr("TX_CTRL", chan))
                     \cup EQOS_DMA_CHX_TX_CTRL_CFG,
                 RegAddr("TX_CTRL", chan), EQOS_DMA_CH0_TX_CTRL_IDX + chan)

\* Lines 215-226: receive control, buffer size replaced, RXPBL set.
ConfigRxCtrl(st, mask, chan, rbl) ==
    SafetyWritel(st, mask,
                 ((osi_readl(st.hw, RegAddr("RX_CTRL", chan))
                      \ EQOS_DMA_CHX_RBSZ_MASK) \cup rbl)
                     \cup EQOS_DMA_CHX_RX_CTRL_RXPBL_RECOMMENDED,
                 RegAddr("RX_CTRL", chan), EQOS_DMA_CH0_RX_CTRL_IDX + chan)

\* Lines 172-226: the four tracked writes of one channel, in program order.
ConfigureChannel(st, mask, chan, rbl) ==
    ConfigRxCtrl(ConfigTxCtrl(ConfigCtrl(ConfigIntrEna(st, mask, chan),
                                         mask, chan),
                              mask, chan),
                 mask, chan, rbl)

\* Lines 275-277 for the channels chans[k .. Len(chans)].
RECURSIVE ConfigureFrom(_, _, _, _, _)
ConfigureFrom(st, mask, chans, k, rbl) ==
    IF k > Len(chans) THEN st
    ELSE ConfigureFrom(ConfigureChannel(st, mask, chans[k], rbl),
                       mask, chans, k + 1, rbl)

(* ------------------------------ eqos_mmc ------------------------------ *)

RECURSIVE Pow2(_)
Pow2(n) == IF n = 0 THEN 1 ELSE 2 * Pow2(n - 1)

(* ------------ eqos_configure_dma_channel, the receive watchdog --------- *)

\* The width of nveu32_t (32 bits), scaled down: osi_dma->rx_riwt and the
\* arithmetic of line 244 are modulo NVEU32_MOD.
RiwtBits == 4

NVEU32_MOD == Pow2(RiwtBits)

\* The width of the RWT field of EQOS_DMA_CHX_RX_WDT (8 bits), scaled down.
RwtBits == 2

EQOS_DMA_CHX_RX_WDT_RWT_MASK == Pow2(RwtBits) - 1

\* Line 245: EQOS_AXI_CLK_FREQ / OSI_ONE_MEGA_HZ, the clock cycles of one
\* microsecond ("System clock is 125MHz"), scaled down to 3.
EQOS_AXI_CLK_FREQ == 3

OSI_ONE_MEGA_HZ == 1

\* Line 246: the clock cycles of one watchdog tick ("512 clk cycles"), a
\* power of two, scaled down.
EQOS_DMA_CHX_RX_WDT_RWTU == 2

EQOS_DMA_CHX_RX_WDT_RWTU_512_CYCLE == "512_CYCLE"

\* The values of EQOS_DMA_CHX_RX_WDT: the RWT field, the RWTU field and the
\* rest of the register.
RxWdtValues ==
    [rwt : 0 .. EQOS_DMA_CHX_RX_WDT_RWT_MASK,
     rwtu : {"0", EQOS_DMA_CHX_RX_WDT_RWTU_512_CYCLE},
     oth : BOOLEAN]

\* Lines 241-248 with the microsecond value written as it is, unconverted.
RxWdtValue_NoConversion(value, riwt) ==
    [value EXCEPT !.rwt = riwt % (EQOS_DMA_CHX_RX_WDT_RWT_MASK + 1),
                  !.rwtu = EQOS_DMA_CHX_RX_WDT_RWTU_512_CYCLE]

\* Lines 241-248: both fields cleared, the tick count computed in nveu32_t
\* arithmetic and masked to the field, the tick unit selected.
RxWdtValue(value, riwt) ==
    LET product == (riwt * (EQOS_AXI_CLK_FREQ \div OSI_ONE_MEGA_HZ)) % NVEU32_MOD
        ticks   == product \div EQOS_DMA_CHX_RX_WDT_RWTU
    IN  [value EXCEPT !.rwt = ticks % (EQOS_DMA_CHX_RX_WDT_RWT_MASK + 1),
                      !.rwtu = EQOS_DMA_CHX_RX_WDT_RWTU_512_CYCLE]

\* Lines 236-251: the watchdog register of a channel after
\* eqos_configure_dma_channel; UINT_MAX of line 237 is NVEU32_MOD - 1.
ConfigRxWdt(value, use, riwt) ==
    IF use = OSI_ENABLE /\ riwt < NVEU32_MOD - 1
    THEN RxWdtValue(value, riwt)
    ELSE value

\* The values an MMC register read can return.
UINT_MAX == Pow2(MmcRegBits) - 1

RegValues == 0 .. UINT_MAX

\* unsigned long long arithmetic is modulo ULLONG_MOD.
ULLONG_MOD == Pow2(2 * MmcRegBits)

\* ULONG_MAX of the build.
ULONG_MAX(a) == IF a = "LP64" THEN ULLONG_MOD - 1 ELSE UINT_MAX

\* The counters of struct osi_mmc_counters the model follows: the first one
\* read, the pair mmc_tx_exesscol / mmc_tx_carrier_error, and
\* mmc_rx_udp_gd_octets.  The others are read like mmc_tx_octetcount_gb.
Counters == {"mmc_tx_octetcount_gb", "mmc_tx_exesscol", "mmc_tx_carrier_error",
             "mmc_rx_udp_gd_octets"}

\* eqos_read_mmc, lines 114-116, 168-173, 327-329 and 336-338, in program
\* order: the counter assigned, the counter passed as last_value, and the
\* register read.
MmcUpdates ==
    << [dst |-> "mmc_tx_octetcount_gb", src |-> "mmc_tx_octetcount_gb",
        reg |-> "MMC_TXOCTETCOUNT_GB"],
       [dst |-> "mmc_tx_exesscol", src |-> "mmc_tx_exesscol",
        reg |-> "MMC_TXEXESSCOL"],
       [dst |-> "mmc_tx_carrier_error", src |-> "mmc_tx_exesscol",
        reg |-> "MMC_TXCARRIERERROR"],
       [dst |-> "mmc_rx_udp_gd_octets", src |-> "mmc_rx_udp_gd_octets",
        reg |-> "MMC_RXIPV6_GD_OCTETS"],
       [dst |-> "mmc_rx_udp_gd_octets", src |-> "mmc_rx_udp_gd_octets",
        reg |-> "MMC_RXUDP_GD_OCTETS"] >>

\* The hardware register that counts what a counter is named after.
OwnReg(c) ==
    CASE c = "mmc_tx_octetcount_gb" -> "MMC_TXOCTETCOUNT_GB"
      [] c = "mmc_tx_exesscol" -> "MMC_TXEXESSCOL"
      [] c = "mmc_tx_carrier_error" -> "MMC_TXCARRIERERROR"
      [] c = "mmc_rx_udp_gd_octets" -> "MMC_RXUDP_GD_OCTETS"

ZeroCounters == [c \in Counters |-> 0]

\* The bits of EQOS_MMC_CNTRL: the counter reset bit, which clears itself
\* one clock cycle after it is written, and the rest.
EQOS_MMC_CNTRL_CNTRST == "CNTRST"

MmcCntrlBits == {EQOS_MMC_CNTRL_CNTRST, "oth"}

\* Lines 87-90: the value eqos_reset_mmc writes, from the value it read.
MmcCntrlWritten(value) ==
    value \cup {EQOS_MMC_CNTRL_CNTRST}

\* The register after the write of w and the self-clear of CNTRST.
MmcCntrlAfter(w) == w \ {EQOS_MMC_CNTRL_CNTRST}

\* update_mmc_val, lines 47-66: temp = last_value + value in unsigned long
\* long; eqos_reset_mmc and 0 when temp > ULONG_MAX, else temp.
update_mmc_val(a, last_value, value) ==
    LET temp == (last_value + value) % ULLONG_MOD
    IN  IF temp > ULONG_MAX(a)
        THEN [reset |-> TRUE, val |-> 0]
        ELSE [reset |-> FALSE, val |-> temp]

\* One assignment of eqos_read_mmc: the register returns value; the counter
\* is assigned after update_mmc_val (and eqos_reset_mmc inside it) returned.
eqos_read_mmc_update(value) ==
    /\ IF m_k = 0 THEN m_passes < MaxPasses ELSE TRUE
    /\ LET u == MmcUpdates[m_k + 1]
           r == update_mmc_val(abi, mmc[u.src], value)
           exceeds == mmc[u.src] + value > ULONG_MAX(abi)
       IN  /\ mmc' = IF r.reset THEN ZeroCounters
                     ELSE [mmc EXCEPT ![u.dst] = r.val]
           /\ m_own' = IF r.reset THEN ZeroCounters
                       ELSE [c \in Counters |->
                               IF OwnReg(c) = u.reg THEN m_own[c] + value
                               ELSE m_own[c]]
           /\ m_ovf' = (m_ovf \/ exceeds)
           /\ m_pass_ovf' = ((m_k # 0 /\ m_pass_ovf) \/ exceeds)
           /\ m_pass_rst' = (IF m_k = 0 THEN 0 ELSE m_pass_rst)
                            + (IF r.reset THEN 1 ELSE 0)
           /\ m_rst_tick' = IF r.reset THEN 1 - m_rst_tick ELSE m_rst_tick
           /\ mmc_cntrl' = IF r.reset
                           THEN MmcCntrlAfter(MmcCntrlWritten(mmc_cntrl))
                           ELSE mmc_cntrl
    /\ m_k' = IF m_k + 1 = Len(MmcUpdates) THEN 0 ELSE m_k + 1
    /\ m_passes' = IF m_k = 0 THEN m_passes + 1 ELSE m_passes
    /\ UNCHANGED <<abi, m_rst_writes, m_rst_dirty>>
    /\ UNCHANGED <<dmaVars, xpcsVars, eeeVars, slotVars, wdtVars>>

\* Lines 83-92 with the osi_memset of line 91 left out.
eqos_reset_mmc_NoMemset ==
    /\ m_k = 0
    /\ m_rst_dirty' = (mmc # ZeroCounters)
    /\ m_rst_writes' = <<MmcCntrlWritten(mmc_cntrl)>>
    /\ mmc_cntrl' = MmcCntrlAfter(MmcCntrlWritten(mmc_cntrl))
    /\ m_ovf' = FALSE
    /\ m_rst_tick' = 1 - m_rst_tick
    /\ UNCHANGED <<mmc, m_own, abi, m_k, m_passes, m_pass_ovf, m_pass_rst>>
    /\ UNCHANGED <<dmaVars, xpcsVars, eeeVars, slotVars, wdtVars>>

\* eqos_reset_mmc, lines 83-92, called on its own between two passes:
\* EQOS_MMC_CNTRL read, written back with CNTRST set, the counter structure
\* zeroed.
eqos_reset_mmc ==
    /\ m_k = 0
    /\ m_rst_dirty' = (mmc # ZeroCounters)
    /\ m_rst_writes' = <<MmcCntrlWritten(mmc_cntrl)>>
    /\ mmc_cntrl' = MmcCntrlAfter(MmcCntrlWritten(mmc_cntrl))
    /\ mmc' = ZeroCounters
    /\ m_own' = ZeroCounters
    /\ m_ovf' = FALSE
    /\ m_rst_tick' = 1 - m_rst_tick
    /\ UNCHANGED <<abi, m_k, m_passes, m_pass_ovf, m_pass_rst>>
    /\ UNCHANGED <<dmaVars, xpcsVars, eeeVars, slotVars, wdtVars>>

eqos_read_mmc ==
    \E value \in RegValues : eqos_read_mmc_update(value)

InitMmcState ==
    /\ mmc = ZeroCounters
    /\ m_k = 0
    /\ m_passes = 0
    /\ m_own = ZeroCounters
    /\ m_ovf = FALSE
    /\ m_pass_ovf = FALSE
    /\ m_pass_rst = 0
    /\ m_rst_tick = 0
    /\ m_rst_writes = <<>>
    /\ m_rst_dirty = FALSE

\* The statistics component at rest.
InitMmcRest ==
    /\ InitMmcState
    /\ mmc_cntrl = {}

(* -------------------------------- xpcs -------------------------------- *)

\* The bits of XPCS_SR_MII_CTRL the driver names, and one bit ("oth") that
\* stands for all the others.
XPCS_SR_MII_CTRL_AN_ENABLE == "AN_ENABLE"

XPCS_SR_MII_CTRL_SS5 == "SS5"

XPCS_SR_MII_CTRL_SS6 == "SS6"

XPCS_SR_MII_CTRL_SS13 == "SS13"

MiiCtrlBits == {XPCS_SR_MII_CTRL_AN_ENABLE, XPCS_SR_MII_CTRL_SS5,
                XPCS_SR_MII_CTRL_SS6, XPCS_SR_MII_CTRL_SS13, "oth"}

SpeedSelectBits == {XPCS_SR_MII_CTRL_SS5, XPCS_SR_MII_CTRL_SS6,
                    XPCS_SR_MII_CTRL_SS13}

\* The encodings of the speed field (XPCS_USXG_AN_STS_SPEED_MASK) of the AN
\* status: zero, the three named ones, and "other" for every other non-zero
\* encoding.
XPCS_USXG_AN_STS_SPEED_2500 == "2500"

XPCS_USXG_AN_STS_SPEED_5000 == "5000"

XPCS_USXG_AN_STS_SPEED_10000 == "10000"

Speeds == {"0", XPCS_USXG_AN_STS_SPEED_2500, XPCS_USXG_AN_STS_SPEED_5000,
           XPCS_USXG_AN_STS_SPEED_10000, "other"}

\* A value of XPCS_VR_MII_AN_INTR_STS: the CL37_ANCMPLT_INTR bit and the
\* speed field.
AnStatus == [cmplt : BOOLEAN, speed : Speeds]

ZeroStatus == [cmplt |-> FALSE, speed |-> "0"]

XPCS_VR_XS_PCS_DIG_CTRL1_USRA_RST == "USRA_RST"

XPCS_VR_XS_PCS_DIG_CTRL1_VR_RST == "VR_RST"

XPCS_VR_XS_PCS_DIG_CTRL1_USXG_EN == "USXG_EN"

XPCS_VR_XS_PCS_DIG_CTRL1_CL37_BP == "CL37_BP"

XPCS_SR_XS_PCS_CTRL2_PCS_TYPE_SEL_BASE_R == "BASE_R"

XPCS_SR_AN_CTRL_AN_EN == "AN_EN"

XPCS_SR_XS_PCS_STS1_RLU == "RLU"

\* What a read of XPCS_VR_XS_PCS_DIG_CTRL1 can return when the register was
\* left at reg: the two reset bits are self-clearing, each may have cleared.
DigCtrl1Reads(reg) ==
    {reg \ c : c \in SUBSET {XPCS_VR_XS_PCS_DIG_CTRL1_USRA_RST,
                             XPCS_VR_XS_PCS_DIG_CTRL1_VR_RST}}

\* Lines 96-113 with the bits of the speed only ORed in, none cleared.
xpcs_set_speed_OrOnly(ctrl, status) ==
    CASE status.speed = XPCS_USXG_AN_STS_SPEED_2500 ->
            ctrl \cup {XPCS_SR_MII_CTRL_SS5}
      [] status.speed = XPCS_USXG_AN_STS_SPEED_5000 ->
            ctrl \cup {XPCS_SR_MII_CTRL_SS5, XPCS_SR_MII_CTRL_SS13}
      [] OTHER ->
            ctrl \cup {XPCS_SR_MII_CTRL_SS6, XPCS_SR_MII_CTRL_SS13}

\* Lines 88-116 with a default label that leaves the register as read.
xpcs_set_speed_NoDefault(ctrl, status) ==
    CASE status.speed = XPCS_USXG_AN_STS_SPEED_2500 ->
            (ctrl \cup {XPCS_SR_MII_CTRL_SS5})
               \ {XPCS_SR_MII_CTRL_SS6, XPCS_SR_MII_CTRL_SS13}
      [] status.speed = XPCS_USXG_AN_STS_SPEED_5000 ->
            (ctrl \cup {XPCS_SR_MII_CTRL_SS5, XPCS_SR_MII_CTRL_SS13})
               \ {XPCS_SR_MII_CTRL_SS6}
      [] status.speed = XPCS_USXG_AN_STS_SPEED_10000 ->
            (ctrl \cup {XPCS_SR_MII_CTRL_SS6, XPCS_SR_MII_CTRL_SS13})
               \ {XPCS_SR_MII_CTRL_SS5}
      [] OTHER -> ctrl

\* xpcs_set_speed, lines 91-115: the value written to XPCS_SR_MII_CTRL when
\* the register read ctrl and the AN status is status.
xpcs_set_speed(ctrl, status) ==
    CASE status.speed = XPCS_USXG_AN_STS_SPEED_2500 ->
            (ctrl \cup {XPCS_SR_MII_CTRL_SS5})
                \ {XPCS_SR_MII_CTRL_SS6, XPCS_SR_MII_CTRL_SS13}
      [] status.speed = XPCS_USXG_AN_STS_SPEED_5000 ->
            (ctrl \cup {XPCS_SR_MII_CTRL_SS5, XPCS_SR_MII_CTRL_SS13})
                \ {XPCS_SR_MII_CTRL_SS6}
      [] OTHER ->
            (ctrl \cup {XPCS_SR_MII_CTRL_SS6, XPCS_SR_MII_CTRL_SS13})
                \ {XPCS_SR_MII_CTRL_SS5}

\* No xpcs_init / xpcs_start call is running and none has returned yet.
InitXpcsState ==
    /\ x_an_sts = ZeroStatus
    /\ x_dig_ctrl1 = {}
    /\ x_pcs_ctrl2 = {}
    /\ x_op = NONE /\ x_pc = "idle"
    /\ x_count = 0
    /\ x_status = ZeroStatus
    /\ x_ret = NoReturn
    /\ x_log = <<>>
    /\ x_reads = 0 /\ x_delays = 0
    /\ x_start_fail = [timeout |-> NoReturn, zero_speed |-> NoReturn]

(* ------------------------------ history ------------------------------- *)

\* What an operation that changes registers or the table does to the record
\* of the last validate: a finished validate's result has been taken by its
\* caller and is dropped; a running validate is marked as overtaken.
ValidateOvertaken ==
    IF v_pc = "idle"
    THEN /\ v_ret' = NoReturn /\ v_i' = 0 /\ v_reads' = 0
         /\ v_prev' = <<"none">> /\ v_stale' = FALSE
    ELSE /\ v_stale' = TRUE
         /\ UNCHANGED <<v_ret, v_i, v_reads, v_prev>>

(* ------------------------------ Init ---------------------------------- *)

\* The state after load: eqos_dma_safety_config is a zero-initialised static
\* (every reg_addr OSI_NULL, every mask and value 0, the lock word 0, which is
\* OSI_UNLOCKED), the registers hold their power-on value 0 and no context
\* is inside an operation.
InitDma ==
    /\ hw = [a \in Regs |-> {}]
    /\ reg_addr = [i \in Slots |-> OSI_NULL]
    /\ reg_mask = [i \in Slots |-> {}]
    /\ reg_val = [i \in Slots |-> {}]
    /\ dma_safety_lock = OSI_UNLOCKED
    /\ dma_chans = <<>>
    /\ rx_buf_len = {}
    /\ w_pc = "idle" /\ w_val = {} /\ w_idx = 0
    /\ v_pc = "idle" /\ v_i = 0 /\ v_ret = NoReturn /\ v_reads = 0
    /\ i_pc = "idle" /\ i_k = 0
    /\ ops = 0
    /\ last_op = <<"none">>
    /\ v_prev = <<"none">>
    /\ v_stale = FALSE

\* The other components at rest.
InitXpcsRest ==
    /\ InitXpcsState
    /\ x_mii_ctrl = {}
    /\ x_an_ctrl = {XPCS_SR_AN_CTRL_AN_EN}

\* No xpcs_eee call made yet.
InitEeeState ==
    /\ e_arg = NONE /\ e_prev = {} /\ e_ret = NoReturn
    /\ e_reads = 0 /\ e_writes = 0
    /\ e_pc = "idle" /\ e_val = {}

InitEeeRest ==
    /\ x_eee = {}
    /\ InitEeeState

InitSlotRest ==
    /\ slot_ctrl = [ch \in Chans |-> {}]
    /\ s_arg = <<>> /\ s_prev = [ch \in Chans |-> {}]

\* The receive watchdog not requested, its registers at their power-on
\* value.
InitWdtRest ==
    /\ use_riwt = OSI_DISABLE
    /\ rx_riwt = 0
    /\ rx_wdt = [ch \in Chans |-> [rwt |-> 0, rwtu |-> "0", oth |-> FALSE]]

\* The specifications of the DMA component leave the counters alone.
Init ==
    /\ InitDma /\ InitMmcRest /\ abi = "LP64"
    /\ InitXpcsRest /\ InitEeeRest /\ InitSlotRest /\ InitWdtRest

\* The build is unknown: both data models are initial states.
InitMmc ==
    /\ InitDma /\ InitMmcState /\ abi \in {"ILP32", "LP64"}
    /\ mmc_cntrl \in SUBSET (MmcCntrlBits \ {EQOS_MMC_CNTRL_CNTRST})
    /\ InitXpcsRest /\ InitEeeRest /\ InitSlotRest /\ InitWdtRest

\* The PCS registers hold whatever an earlier mode left in them.
InitXpcs ==
    /\ InitDma /\ InitMmcRest /\ abi = "LP64"
    /\ InitXpcsState
    /\ x_mii_ctrl \in SUBSET (MiiCtrlBits \ {XPCS_SR_MII_CTRL_AN_ENABLE})
    /\ x_an_ctrl \in SUBSET {XPCS_SR_AN_CTRL_AN_EN}
    /\ InitEeeRest /\ InitSlotRest /\ InitWdtRest

(* ------------------- eqos_dma_safety_writel, stepwise ----------------- *)

\* Line 64 without the lock: the critical section entered unconditionally.
safety_writel_lock_NoLock(val, idx) ==
    /\ w_pc = "idle" /\ i_pc = "idle"
    /\ ops < MaxOps
    /\ reg_addr[idx] # OSI_NULL
    /\ w_pc' = "write" /\ w_val' = val /\ w_idx' = idx
    /\ ops' = ops + 1
    /\ ValidateOvertaken
    /\ UNCHANGED <<hw, reg_addr, reg_mask, reg_val, dma_safety_lock, dma_chans,
                   rx_buf_len, v_pc, i_pc, i_k, last_op>>
    /\ UNCHANGED <<mmcVars, xpcsVars, eeeVars, slotVars, wdtVars>>

\* Line 64: a call safety_writel(val, reg_addr[idx], idx) on a populated slot
\* gets past osi_lock_irq_enabled once the lock is free.
safety_writel_lock(val, idx) ==
    /\ w_pc = "idle" /\ i_pc = "idle"
    /\ ops < MaxOps
    /\ reg_addr[idx] # OSI_NULL
    /\ dma_safety_lock = OSI_UNLOCKED
    /\ dma_safety_lock' = OSI_LOCKED
    /\ w_pc' = "write" /\ w_val' = val /\ w_idx' = idx
    /\ ops' = ops + 1
    /\ ValidateOvertaken
    /\ UNCHANGED <<hw, reg_addr, reg_mask, reg_val, dma_chans, rx_buf_len,
                   v_pc, i_pc, i_k, last_op>>
    /\ UNCHANGED <<mmcVars, xpcsVars, eeeVars, slotVars, wdtVars>>

\* Line 65: the live hardware write.
safety_writel_write ==
    /\ w_pc = "write"
    /\ hw' = osi_writel(hw, w_val, reg_addr[w_idx])
    /\ w_pc' = "store"
    /\ ValidateOvertaken
    /\ UNCHANGED <<reg_addr, reg_mask, reg_val, dma_safety_lock, dma_chans,
                   rx_buf_len, w_val, w_idx, v_pc, i_pc, i_k, ops, last_op>>
    /\ UNCHANGED <<mmcVars, xpcsVars, eeeVars, slotVars, wdtVars>>

\* Line 66 with the index ignored: the masked value stored in every slot.
safety_writel_store_AllSlots ==
    /\ w_pc = "store"
    /\ reg_val' = [j \in Slots |-> SafetyShadow(w_val, reg_mask[w_idx])]
    /\ w_pc' = "unlock"
    /\ ValidateOvertaken
    /\ UNCHANGED <<hw, reg_addr, reg_mask, dma_safety_lock, dma_chans,
                   rx_buf_len, w_val, w_idx, v_pc, i_pc, i_k, ops, last_op>>
    /\ UNCHANGED <<mmcVars, xpcsVars, eeeVars, slotVars, wdtVars>>

\* Line 66: the shadow update.
safety_writel_store ==
    /\ w_pc = "store"
    /\ reg_val' = [reg_val EXCEPT
                     ![w_idx] = SafetyShadow(w_val, reg_mask[w_idx])]
    /\ w_pc' = "unlock"
    /\ ValidateOvertaken
    /\ UNCHANGED <<hw, reg_addr, reg_mask, dma_safety_lock, dma_chans,
                   rx_buf_len, w_val, w_idx, v_pc, i_pc, i_k, ops, last_op>>
    /\ UNCHANGED <<mmcVars, xpcsVars, eeeVars, slotVars, wdtVars>>

\* Line 67: the lock released, the call returns (its locals die).
safety_writel_unlock ==
    /\ w_pc = "unlock"
    /\ dma_safety_lock' = OSI_UNLOCKED
    /\ w_pc' = "idle" /\ w_val' = {} /\ w_idx' = 0
    /\ last_op' = <<"sw">>
    /\ UNCHANGED <<hw, reg_addr, reg_mask, reg_val, dma_chans, rx_buf_len,
                   v_pc, v_i, v_ret, v_reads, i_pc, i_k, ops, v_prev, v_stale>>
    /\ UNCHANGED <<mmcVars, xpcsVars, eeeVars, slotVars, wdtVars>>

eqos_dma_safety_writel ==
    \/ \E val \in Word, idx \in Slots : safety_writel_lock(val, idx)
    \/ safety_writel_write
    \/ safety_writel_store
    \/ safety_writel_unlock

(* ------------------- eqos_validate_dma_regs, stepwise ----------------- *)

\* Line 316: the validator gets past osi_lock_irq_enabled once the lock is
\* free.
validate_lock ==
    /\ v_pc = "idle"
    /\ dma_safety_lock = OSI_UNLOCKED
    /\ dma_safety_lock' = OSI_LOCKED
    /\ v_pc' = "loop" /\ v_i' = EQOS_DMA_CH0_CTRL_IDX
    /\ v_ret' = NoReturn /\ v_reads' = 0
    /\ v_prev' = last_op /\ v_stale' = FALSE
    /\ UNCHANGED <<hw, reg_addr, reg_mask, reg_val, dma_chans, rx_buf_len,
                   w_pc, w_val, w_idx, i_pc, i_k, ops, last_op>>
    /\ UNCHANGED <<mmcVars, xpcsVars, eeeVars, slotVars, wdtVars>>

\* Lines 322-325 with the mask left out of the comparison.
SlotMatches_Unmasked(h, addr, mask, val, i) ==
    osi_readl(h, addr[i]) = val[i]

\* Lines 322-325: the masked current value equals the shadow value.
SlotMatches(h, addr, mask, val, i) ==
    (osi_readl(h, addr[i]) \cap mask[i]) = val[i]

\* Lines 317-335 without the test of line 318: an unpopulated slot is read
\* (address 0, taken to read as 0) and compared like a populated one.
validate_slot_NoSkip ==
    /\ v_pc = "loop" /\ v_i < EQOS_MAX_DMA_SAFETY_REGS
    /\ v_reads' = v_reads + 1
    /\ IF (IF reg_addr[v_i] = OSI_NULL
           THEN ({} \cap reg_mask[v_i]) = reg_val[v_i]
           ELSE SlotMatches(hw, reg_addr, reg_mask, reg_val, v_i))
       THEN /\ v_i' = v_i + 1
            /\ UNCHANGED <<v_pc, v_ret, dma_safety_lock>>
       ELSE /\ dma_safety_lock' = OSI_UNLOCKED
            /\ v_ret' = Returned(FAIL)
            /\ v_pc' = "idle"
            /\ UNCHANGED v_i
    /\ UNCHANGED <<hw, reg_addr, reg_mask, reg_val, dma_chans, rx_buf_len,
                   w_pc, w_val, w_idx, i_pc, i_k, ops, last_op, v_prev,
                   v_stale>>
    /\ UNCHANGED <<mmcVars, xpcsVars, eeeVars, slotVars, wdtVars>>

\* Lines 317-335 without the return of lines 332-333: the scan goes on after
\* a mismatch.
validate_slot_NoStop ==
    /\ v_pc = "loop" /\ v_i < EQOS_MAX_DMA_SAFETY_REGS
    /\ v_reads' = IF reg_addr[v_i] = OSI_NULL THEN v_reads ELSE v_reads + 1
    /\ v_i' = v_i + 1
    /\ UNCHANGED <<hw, reg_addr, reg_mask, reg_val, dma_safety_lock, dma_chans,
                   rx_buf_len, w_pc, w_val, w_idx, v_pc, v_ret, i_pc, i_k, ops,
                   last_op, v_prev, v_stale>>
    /\ UNCHANGED <<mmcVars, xpcsVars, eeeVars, slotVars, wdtVars>>

\* Lines 317-335 with the unlock of line 332 left out: the mismatch path
\* returns -1 with the lock held.
validate_slot_NoUnlockOnMismatch ==
    /\ v_pc = "loop" /\ v_i < EQOS_MAX_DMA_SAFETY_REGS
    /\ IF reg_addr[v_i] = OSI_NULL
       THEN /\ v_i' = v_i + 1
            /\ UNCHANGED <<v_pc, v_ret, v_reads, dma_safety_lock>>
       ELSE /\ v_reads' = v_reads + 1
            /\ IF SlotMatches(hw, reg_addr, reg_mask, reg_val, v_i)
               THEN /\ v_i' = v_i + 1
                    /\ UNCHANGED <<v_pc, v_ret, dma_safety_lock>>
               ELSE /\ v_ret' = Returned(FAIL)
                    /\ v_pc' = "idle"
                    /\ UNCHANGED <<v_i, dma_safety_lock>>
    /\ UNCHANGED <<hw, reg_addr, reg_mask, reg_val, dma_chans, rx_buf_len,
                   w_pc, w_val, w_idx, i_pc, i_k, ops, last_op, v_prev,
                   v_stale>>
    /\ UNCHANGED <<mmcVars, xpcsVars, eeeVars, slotVars, wdtVars>>

\* Lines 317-335 for slot v_i: an unpopulated slot is skipped; a populated
\* one is read and compared; on a mismatch the lock is released and -1
\* returned.
validate_slot ==
    /\ v_pc = "loop" /\ v_i < EQOS_MAX_DMA_SAFETY_REGS
    /\ IF reg_addr[v_i] = OSI_NULL
       THEN /\ v_i' = v_i + 1
            /\ UNCHANGED <<v_pc, v_ret, v_reads, dma_safety_lock>>
       ELSE /\ v_reads' = v_reads + 1
            /\ IF SlotMatches(hw, reg_addr, reg_mask, reg_val, v_i)
               THEN /\ v_i' = v_i + 1
                    /\ UNCHANGED <<v_pc, v_ret, dma_safety_lock>>
               ELSE /\ dma_safety_lock' = OSI_UNLOCKED
                    /\ v_ret' = Returned(FAIL)
                    /\ v_pc' = "idle"
                    /\ UNCHANGED v_i
    /\ UNCHANGED <<hw, reg_addr, reg_mask, reg_val, dma_chans, rx_buf_len,
                   w_pc, w_val, w_idx, i_pc, i_k, ops, last_op, v_prev,
                   v_stale>>
    /\ UNCHANGED <<mmcVars, xpcsVars, eeeVars, slotVars, wdtVars>>

\* Lines 336-338: the loop is over, the lock released and 0 returned.
validate_unlock ==
    /\ v_pc = "loop" /\ v_i = EQOS_MAX_DMA_SAFETY_REGS
    /\ dma_safety_lock' = OSI_UNLOCKED
    /\ v_ret' = Returned(OK)
    /\ v_pc' = "idle"
    /\ UNCHANGED <<hw, reg_addr, reg_mask, reg_val, dma_chans, rx_buf_len,
                   w_pc, w_val, w_idx, v_i, v_reads, i_pc, i_k, ops, last_op,
                   v_prev, v_stale>>
    /\ UNCHANGED <<mmcVars, xpcsVars, eeeVars, slotVars, wdtVars>>

eqos_validate_dma_regs ==
    \/ validate_lock
    \/ validate_slot
    \/ validate_unlock

(* ------------- eqos_init_dma_channel, run at initialisation ----------- *)

\* Lines 268-280 run while no other context is inside the component (API
\* group "Initialization"): eqos_dma_safety_init (clear, populate, seed,
\* osi_lock_init), then eqos_configure_dma_channel for every active channel.
eqos_init_dma_channel(chans, rbl) ==
    /\ i_pc = "idle" /\ w_pc = "idle" /\ v_pc = "idle"
    /\ ops < MaxOps
    /\ LET tbl == PopulateFrom([addr |-> SafetyInitClear, mask |-> reg_mask],
                               chans, 1)
           seeded == SeedAll(reg_val, tbl.addr, tbl.mask, hw)
           st == ConfigureFrom([hw |-> hw, val |-> seeded], tbl.mask,
                               chans, 1, rbl)
       IN  /\ reg_addr' = tbl.addr
           /\ reg_mask' = tbl.mask
           /\ reg_val' = st.val
           /\ hw' = st.hw
    /\ dma_safety_lock' = OSI_UNLOCKED
    /\ dma_chans' = chans /\ rx_buf_len' = rbl
    /\ rx_wdt' = [ch \in Chans |->
                    IF ch \in Range(chans)
                    THEN ConfigRxWdt(rx_wdt[ch], use_riwt, rx_riwt)
                    ELSE rx_wdt[ch]]
    /\ ops' = ops + 1
    /\ last_op' = <<"init">>
    /\ ValidateOvertaken
    /\ UNCHANGED <<w_pc, w_val, w_idx, v_pc, i_pc, i_k>>
    /\ UNCHANGED <<use_riwt, rx_riwt>>
    /\ UNCHANGED <<mmcVars, xpcsVars, eeeVars, slotVars>>

(* -------- eqos_init_dma_channel, stepwise (a re-initialisation) ------- *)

\* Lines 272, 92-102: the call starts with the caller's channel list and
\* buffer length in osi_dma and sets every slot address to OSI_NULL.  No
\* lock is taken.
init_clear(chans, rbl) ==
    /\ i_pc = "idle" /\ w_pc = "idle"
    /\ ops < MaxOps
    /\ dma_chans' = chans /\ rx_buf_len' = rbl
    /\ reg_addr' = SafetyInitClear
    /\ i_pc' = IF Len(chans) = 0 THEN "seed" ELSE "populate"
    /\ i_k' = IF Len(chans) = 0 THEN EQOS_DMA_CH0_CTRL_IDX ELSE 1
    /\ ops' = ops + 1
    /\ ValidateOvertaken
    /\ UNCHANGED <<hw, reg_mask, reg_val, dma_safety_lock, w_pc, w_val, w_idx,
                   v_pc, last_op>>
    /\ UNCHANGED <<mmcVars, xpcsVars, eeeVars, slotVars, wdtVars>>

\* Lines 104-134, one iteration: the addresses and masks of dma_chans[i_k].
init_populate ==
    /\ i_pc = "populate"
    /\ reg_addr' = PopulateAddr(reg_addr, dma_chans[i_k])
    /\ reg_mask' = PopulateMask(reg_mask, dma_chans[i_k])
    /\ i_pc' = IF i_k = Len(dma_chans) THEN "seed" ELSE "populate"
    /\ i_k' = IF i_k = Len(dma_chans) THEN EQOS_DMA_CH0_CTRL_IDX ELSE i_k + 1
    /\ ValidateOvertaken
    /\ UNCHANGED <<hw, reg_val, dma_safety_lock, dma_chans, rx_buf_len, w_pc,
                   w_val, w_idx, v_pc, ops, last_op>>
    /\ UNCHANGED <<mmcVars, xpcsVars, eeeVars, slotVars, wdtVars>>

\* Lines 137-143, one iteration: slot i_k seeded from the hardware.
init_seed ==
    /\ i_pc = "seed"
    /\ reg_val' = SeedSlot(reg_val, reg_addr, reg_mask, hw, i_k)
    /\ i_pc' = IF i_k + 1 = EQOS_MAX_DMA_SAFETY_REGS THEN "lockinit" ELSE "seed"
    /\ i_k' = IF i_k + 1 = EQOS_MAX_DMA_SAFETY_REGS THEN 0 ELSE i_k + 1
    /\ ValidateOvertaken
    /\ UNCHANGED <<hw, reg_addr, reg_mask, dma_safety_lock, dma_chans,
                   rx_buf_len, w_pc, w_val, w_idx, v_pc, ops, last_op>>
    /\ UNCHANGED <<mmcVars, xpcsVars, eeeVars, slotVars, wdtVars>>

\* Line 145: osi_lock_init stores OSI_UNLOCKED in the lock word, whoever
\* holds the lock.
init_lock_init ==
    /\ i_pc = "lockinit"
    /\ dma_safety_lock' = OSI_UNLOCKED
    /\ i_pc' = IF Len(dma_chans) = 0 THEN "idle" ELSE "configure"
    /\ i_k' = IF Len(dma_chans) = 0 THEN 0 ELSE 1
    /\ last_op' = IF Len(dma_chans) = 0 THEN <<"init">> ELSE last_op
    /\ UNCHANGED <<hw, reg_addr, reg_mask, reg_val, dma_chans, rx_buf_len,
                   w_pc, w_val, w_idx, v_pc, v_i, v_ret, v_reads, ops, v_prev,
                   v_stale>>
    /\ UNCHANGED <<mmcVars, xpcsVars, eeeVars, slotVars, wdtVars>>

\* Lines 275-277, one iteration: eqos_configure_dma_channel(dma_chans[i_k]);
\* each of its four shadow writes takes the lock, so the step waits for it.
init_configure ==
    /\ i_pc = "configure"
    /\ dma_safety_lock = OSI_UNLOCKED
    /\ LET st == ConfigureChannel([hw |-> hw, val |-> reg_val], reg_mask,
                                  dma_chans[i_k], rx_buf_len)
       IN  /\ hw' = st.hw
           /\ reg_val' = st.val
    /\ i_pc' = IF i_k = Len(dma_chans) THEN "idle" ELSE "configure"
    /\ i_k' = IF i_k = Len(dma_chans) THEN 0 ELSE i_k + 1
    /\ last_op' = IF i_k = Len(dma_chans) THEN <<"init">> ELSE last_op
    /\ rx_wdt' = [rx_wdt EXCEPT
                    ![dma_chans[i_k]] = ConfigRxWdt(@, use_riwt, rx_riwt)]
    /\ ValidateOvertaken
    /\ UNCHANGED <<reg_addr, reg_mask, dma_safety_lock, dma_chans, rx_buf_len,
                   w_pc, w_val, w_idx, v_pc, ops>>
    /\ UNCHANGED <<use_riwt, rx_riwt>>
    /\ UNCHANGED <<mmcVars, xpcsVars, eeeVars, slotVars>>

eqos_init_dma_channel_steps ==
    \/ \E chans \in ChanLists, rbl \in RxBufLens : init_clear(chans, rbl)
    \/ init_populate
    \/ init_seed
    \/ init_lock_init
    \/ init_configure

(* --------------------------- plain writes ----------------------------- *)

\* osi_writel(val, a) on a tracked register from outside the shadow-write
\* path (the plain write of lines 249, 434, 448 applied to a tracked
\* register), or a corruption of the register by the hardware.
DirectWrite(a, val) ==
    /\ ops + PlainWriteCost <= MaxOps
    /\ i_pc = "idle"
    /\ hw' = osi_writel(hw, val, a)
    /\ ops' = ops + PlainWriteCost
    /\ last_op' = <<"dw", a>>
    /\ ValidateOvertaken
    /\ UNCHANGED <<reg_addr, reg_mask, reg_val, dma_safety_lock, dma_chans,
                   rx_buf_len, w_pc, w_val, w_idx, v_pc, i_pc, i_k>>
    /\ UNCHANGED <<mmcVars, xpcsVars, eeeVars, slotVars, wdtVars>>

\* Lines 424-450 for the channels chans[k .. Len(chans)]: the interrupt
\* enable register read, the debug interrupt bits set or cleared, and the
\* result written with osi_writel.
RECURSIVE DebugIntrFrom(_, _, _, _)
DebugIntrFrom(h, chans, k, enable) ==
    IF k > Len(chans) THEN h
    ELSE LET a == RegAddr("INTR_ENA", chans[k])
             val == IF enable = OSI_ENABLE
                    THEN osi_readl(h, a) \cup EQOS_DMA_CHX_INTR_DEBUG
                    ELSE osi_readl(h, a) \ EQOS_DMA_CHX_INTR_DEBUG
         IN  DebugIntrFrom(osi_writel(h, val, a), chans, k + 1, enable)

\* Lines 416-452 (OSI_DEBUG builds): ops->debug_intr_config.
eqos_debug_intr_config(enable) ==
    /\ ops < MaxOps
    /\ i_pc = "idle"
    /\ hw' = DebugIntrFrom(hw, dma_chans, 1, enable)
    /\ ops' = ops + 1
    /\ last_op' = <<"dbg">>
    /\ ValidateOvertaken
    /\ UNCHANGED <<reg_addr, reg_mask, reg_val, dma_safety_lock, dma_chans,
                   rx_buf_len, w_pc, w_val, w_idx, v_pc, i_pc, i_k>>
    /\ UNCHANGED <<mmcVars, xpcsVars, eeeVars, slotVars, wdtVars>>

(* --------------------------- eqos_config_slot -------------------------- *)

\* A register or argument word is the set of the positions of its set bits.
\* The width of the slot interval field SIV ("slot interval from 0usec to
\* 4095usec", line 361: 12 bits), scaled down.
SivBits == 2

\* EQOS_DMA_CHX_SLOT_SIV_SHIFT (line 381), the position of the SIV field in
\* EQOS_DMA_CHX_SLOT_CTRL: 4 in eqos_dma.h, scaled down with the field.
EQOS_DMA_CHX_SLOT_SIV_SHIFT == 1

\* EQOS_DMA_CHX_SLOT_SIV_MASK (lines 378, 380): the SivBits low bits of a
\* word (0xFFF in eqos_dma.h).
EQOS_DMA_CHX_SLOT_SIV_MASK == 0 .. (SivBits - 1)

\* EQOS_DMA_CHX_SLOT_ESC (lines 383, 391): bit 0.
EQOS_DMA_CHX_SLOT_ESC == {0}

\* The bits of EQOS_DMA_CHX_SLOT_CTRL: ESC, the bits up to the field, the
\* field and one bit above it.
SlotRegBits == 0 .. (EQOS_DMA_CHX_SLOT_SIV_SHIFT + SivBits)

\* The bits of the SIV field in the register.
SlotFieldBits ==
    EQOS_DMA_CHX_SLOT_SIV_SHIFT .. (EQOS_DMA_CHX_SLOT_SIV_SHIFT + SivBits - 1)

\* The interval arguments: every value of the field and as many above.
IntervalBits == 0 .. SivBits

\* The values of the nveu32_t flag arguments: the two recognised ones and
\* one other.
EnDisValues == {OSI_ENABLE, OSI_DISABLE, "other"}

\* w << n within the register.
ShiftLeft(w, n) == {b + n : b \in w} \cap SlotRegBits

\* The number a word stands for.
RECURSIVE WordValue(_)
WordValue(w) ==
    IF w = {} THEN 0
    ELSE LET b == CHOOSE x \in w : TRUE
         IN  2^b + WordValue(w \ {b})

\* Lines 373-394 with a disable branch that also clears the SIV field.
SlotCtrlValue_DisableClearsField(value, set, interval) ==
    IF set = OSI_ENABLE
    THEN ((value \ EQOS_DMA_CHX_SLOT_SIV_MASK)
            \cup ShiftLeft(interval \cap EQOS_DMA_CHX_SLOT_SIV_MASK,
                           EQOS_DMA_CHX_SLOT_SIV_SHIFT))
         \cup EQOS_DMA_CHX_SLOT_ESC
    ELSE (value \ EQOS_DMA_CHX_SLOT_ESC) \ SlotFieldBits

\* Lines 373-394: the value eqos_config_slot writes back, from the value it
\* read.
SlotCtrlValue(value, set, interval) ==
    IF set = OSI_ENABLE
    THEN LET v1   == value \ EQOS_DMA_CHX_SLOT_SIV_MASK
             intr == interval \cap EQOS_DMA_CHX_SLOT_SIV_MASK
             v2   == v1 \cup ShiftLeft(intr, EQOS_DMA_CHX_SLOT_SIV_SHIFT)
         IN  v2 \cup EQOS_DMA_CHX_SLOT_ESC
    ELSE value \ EQOS_DMA_CHX_SLOT_ESC

\* Lines 363-395: the read-modify-write of the channel's slot register.
eqos_config_slot(chan, set, interval) ==
    /\ s_prev' = slot_ctrl
    /\ s_arg' = <<chan, set, interval>>
    /\ slot_ctrl' = [slot_ctrl EXCEPT
                       ![chan] = SlotCtrlValue(slot_ctrl[chan], set, interval)]
    /\ UNCHANGED <<dmaVars, mmcVars, xpcsVars, eeeVars, wdtVars>>

(* ------------------------------- xpcs_eee ------------------------------ *)

XPCS_VR_XS_PCS_EEE_MCTRL0_LTX_EN == "LTX_EN"

XPCS_VR_XS_PCS_EEE_MCTRL0_LRX_EN == "LRX_EN"

XPCS_VR_XS_PCS_EEE_MCTRL0_EEE_SLR_BYP == "EEE_SLR_BYP"

\* The bit groups of XPCS_VR_XS_PCS_EEE_MCTRL0: the three the code names and
\* the rest.
EeeMctrl0Bits ==
    {XPCS_VR_XS_PCS_EEE_MCTRL0_LTX_EN, XPCS_VR_XS_PCS_EEE_MCTRL0_LRX_EN,
     XPCS_VR_XS_PCS_EEE_MCTRL0_EEE_SLR_BYP, "oth"}

EeeEnables ==
    {XPCS_VR_XS_PCS_EEE_MCTRL0_LTX_EN, XPCS_VR_XS_PCS_EEE_MCTRL0_LRX_EN}

\* Lines 285-299 with the test of lines 289-291 left out: a value that is not
\* OSI_DISABLE goes on to the enable path.
xpcs_eee_enter_NoValidation(en_dis) ==
    /\ e_pc = "idle"
    /\ e_arg' = en_dis /\ e_prev' = x_eee
    /\ e_reads' = 0 /\ e_writes' = 0
    /\ e_val' = {}
    /\ e_ret' = NoReturn
    /\ e_pc' = "read"
    /\ UNCHANGED x_eee
    /\ UNCHANGED <<dmaVars, mmcVars, xpcsVars, slotVars, wdtVars>>

\* Lines 285-293: the call begins with val = 0 and validates en_dis; an
\* unrecognised value returns -1.
xpcs_eee_enter(en_dis) ==
    /\ e_pc = "idle"
    /\ e_arg' = en_dis /\ e_prev' = x_eee
    /\ e_reads' = 0 /\ e_writes' = 0
    /\ e_val' = {}
    /\ IF en_dis # OSI_ENABLE /\ en_dis # OSI_DISABLE
       THEN e_ret' = Returned(FAIL) /\ e_pc' = "idle"
       ELSE e_ret' = NoReturn /\ e_pc' = "read"
    /\ UNCHANGED x_eee
    /\ UNCHANGED <<dmaVars, mmcVars, xpcsVars, slotVars, wdtVars>>

\* Lines 294-296 and 312-321 with the enable path setting LTX_EN only.
xpcs_eee_read_TxOnly ==
    /\ e_pc = "read"
    /\ e_reads' = e_reads + 1
    /\ e_val' = IF e_arg = OSI_DISABLE
                THEN x_eee \ EeeEnables
                ELSE (x_eee \ EeeEnables) \cup {XPCS_VR_XS_PCS_EEE_MCTRL0_LTX_EN}
    /\ e_pc' = "write"
    /\ UNCHANGED <<x_eee, e_arg, e_prev, e_ret, e_writes>>
    /\ UNCHANGED <<dmaVars, mmcVars, xpcsVars, slotVars, wdtVars>>

\* Lines 294-296 and 312-321: the register read and val computed.
xpcs_eee_read ==
    /\ e_pc = "read"
    /\ e_reads' = e_reads + 1
    /\ e_val' = IF e_arg = OSI_DISABLE
                THEN x_eee \ EeeEnables
                ELSE (x_eee \ EeeEnables) \cup EeeEnables
    /\ e_pc' = "write"
    /\ UNCHANGED <<x_eee, e_arg, e_prev, e_ret, e_writes>>
    /\ UNCHANGED <<dmaVars, mmcVars, xpcsVars, slotVars, wdtVars>>

\* Lines 297-298 and 322-324: val written back, 0 returned.
xpcs_eee_write ==
    /\ e_pc = "write"
    /\ x_eee' = e_val
    /\ e_writes' = e_writes + 1
    /\ e_ret' = Returned(OK)
    /\ e_pc' = "idle"
    /\ e_val' = {}
    /\ UNCHANGED <<e_arg, e_prev, e_reads>>
    /\ UNCHANGED <<dmaVars, mmcVars, xpcsVars, slotVars, wdtVars>>

(* ------------------------ xpcs_start, stepwise ------------------------ *)

\* A return of the running call with value r: its locals die.
XpcsReturn(r) ==
    /\ x_ret' = Returned(r)
    /\ x_pc' = "idle"
    /\ x_count' = 0
    /\ x_status' = ZeroStatus

\* Lines 130-140: the call begins; autonegotiation is enabled by a
\* read-modify-write of XPCS_SR_MII_CTRL.  Lines 41-48: the locals of
\* xpcs_poll_for_an_complete.
xpcs_start_an_enable ==
    /\ x_pc = "idle"
    /\ x_op' = "start" /\ x_ret' = NoReturn /\ x_log' = <<>>
    /\ x_mii_ctrl' = x_mii_ctrl \cup {XPCS_SR_MII_CTRL_AN_ENABLE}
    /\ x_pc' = "an_poll"
    /\ x_count' = 0 /\ x_status' = ZeroStatus
    /\ x_reads' = 0 /\ x_delays' = 0
    /\ UNCHANGED <<x_an_sts, x_dig_ctrl1, x_pcs_ctrl2, x_an_ctrl>>
    /\ UNCHANGED x_start_fail
    /\ UNCHANGED <<dmaVars, mmcVars, eeeVars, slotVars, wdtVars>>

\* Lines 49-68, one iteration: the ceiling test, the count, the status read
\* (the hardware decides what it returns) and either the delay or the
\* write-back that clears the interrupt bit.
xpcs_an_poll ==
    /\ x_pc = "an_poll"
    /\ IF x_count > retry
       THEN /\ XpcsReturn(FAIL)
            /\ UNCHANGED <<x_an_sts, x_log, x_reads, x_delays>>
       ELSE \E s \in AnStatus :
              /\ x_count' = x_count + 1
              /\ x_reads' = x_reads + 1
              /\ IF ~s.cmplt
                 THEN /\ x_an_sts' = s
                      /\ x_status' = s
                      /\ x_delays' = x_delays + 1
                      /\ UNCHANGED <<x_pc, x_log>>
                 ELSE /\ x_an_sts' = [s EXCEPT !.cmplt = FALSE]
                      /\ x_status' = [s EXCEPT !.cmplt = FALSE]
                      /\ x_log' = x_log \o <<"an_complete", "an_cleared">>
                      /\ x_pc' = "an_check"
                      /\ UNCHANGED x_delays
              /\ UNCHANGED x_ret
    /\ UNCHANGED <<x_mii_ctrl, x_dig_ctrl1, x_pcs_ctrl2, x_an_ctrl, x_op>>
    /\ x_start_fail' = IF x_count > retry
                       THEN [x_start_fail EXCEPT !.timeout = x_ret']
                       ELSE x_start_fail
    /\ UNCHANGED <<dmaVars, mmcVars, eeeVars, slotVars, wdtVars>>

\* Lines 70-77 and 142-145 with the test of the speed field left out.
xpcs_an_check_NoZeroTest ==
    /\ x_pc = "an_check"
    /\ x_pc' = "set_speed"
    /\ UNCHANGED <<x_mii_ctrl, x_an_sts, x_dig_ctrl1, x_pcs_ctrl2, x_an_ctrl,
                   x_op, x_count, x_status, x_ret, x_log, x_reads, x_delays>>
    /\ UNCHANGED x_start_fail
    /\ UNCHANGED <<dmaVars, mmcVars, eeeVars, slotVars, wdtVars>>

\* Lines 70-77 and 142-145: a zero speed field makes
\* xpcs_poll_for_an_complete, and with it xpcs_start, return -1.
xpcs_an_check ==
    /\ x_pc = "an_check"
    /\ IF x_status.speed = "0"
       THEN XpcsReturn(FAIL)
       ELSE /\ x_pc' = "set_speed"
            /\ UNCHANGED <<x_count, x_status, x_ret>>
    /\ UNCHANGED <<x_mii_ctrl, x_an_sts, x_dig_ctrl1, x_pcs_ctrl2, x_an_ctrl,
                   x_op, x_log, x_reads, x_delays>>
    /\ x_start_fail' = IF x_status.speed = "0"
                       THEN [x_start_fail EXCEPT !.zero_speed = x_ret']
                       ELSE x_start_fail
    /\ UNCHANGED <<dmaVars, mmcVars, eeeVars, slotVars, wdtVars>>

\* Line 147: xpcs_set_speed(xpcs_base, an_status).
xpcs_start_set_speed ==
    /\ x_pc = "set_speed"
    /\ x_mii_ctrl' = xpcs_set_speed(x_mii_ctrl, x_status)
    /\ x_log' = Append(x_log, "speed_set")
    /\ x_pc' = "usra_assert"
    /\ UNCHANGED <<x_an_sts, x_dig_ctrl1, x_pcs_ctrl2, x_an_ctrl, x_op,
                   x_count, x_status, x_ret, x_reads, x_delays>>
    /\ UNCHANGED x_start_fail
    /\ UNCHANGED <<dmaVars, mmcVars, eeeVars, slotVars, wdtVars>>

\* Lines 150-152: the rate adaptor reset asserted.  Line 133: the count of
\* the loop that follows starts at 0.
xpcs_start_usra_assert ==
    /\ x_pc = "usra_assert"
    /\ \E ctrl \in DigCtrl1Reads(x_dig_ctrl1) :
          x_dig_ctrl1' = ctrl \cup {XPCS_VR_XS_PCS_DIG_CTRL1_USRA_RST}
    /\ x_log' = Append(x_log, "usra_asserted")
    /\ x_pc' = "usra_poll"
    /\ x_count' = 0 /\ x_reads' = 0 /\ x_delays' = 0
    /\ UNCHANGED <<x_mii_ctrl, x_an_sts, x_pcs_ctrl2, x_an_ctrl, x_op,
                   x_status, x_ret>>
    /\ UNCHANGED x_start_fail
    /\ UNCHANGED <<dmaVars, mmcVars, eeeVars, slotVars, wdtVars>>

\* Lines 153-166 with the return of line 155 left out: past the ceiling
\* the call goes on to the next stage.
xpcs_usra_poll_NoReturn ==
    /\ x_pc = "usra_poll"
    /\ IF x_count > retry
       THEN /\ x_pc' = "rlu_poll"
            /\ x_count' = 0 /\ x_reads' = 0 /\ x_delays' = 0
            /\ UNCHANGED <<x_dig_ctrl1, x_log, x_ret, x_status>>
       ELSE \E ctrl \in DigCtrl1Reads(x_dig_ctrl1) :
              /\ x_dig_ctrl1' = ctrl
              /\ IF XPCS_VR_XS_PCS_DIG_CTRL1_USRA_RST \notin ctrl
                 THEN /\ x_log' = Append(x_log, "usra_cleared")
                      /\ x_pc' = "rlu_poll"
                      /\ x_count' = 0 /\ x_reads' = 0 /\ x_delays' = 0
                 ELSE /\ x_count' = x_count + 1
                      /\ x_reads' = x_reads + 1
                      /\ x_delays' = x_delays + 1
                      /\ UNCHANGED <<x_pc, x_log>>
              /\ UNCHANGED <<x_ret, x_status>>
    /\ UNCHANGED <<x_mii_ctrl, x_an_sts, x_pcs_ctrl2, x_an_ctrl, x_op>>
    /\ UNCHANGED x_start_fail
    /\ UNCHANGED <<dmaVars, mmcVars, eeeVars, slotVars, wdtVars>>

\* Lines 153-166, one iteration: the ceiling test, the count, the read of
\* XPCS_VR_XS_PCS_DIG_CTRL1 and either the exit (then lines 169-170) or the
\* delay.
xpcs_usra_poll ==
    /\ x_pc = "usra_poll"
    /\ IF x_count > retry
       THEN /\ XpcsReturn(FAIL)
            /\ UNCHANGED <<x_dig_ctrl1, x_log, x_reads, x_delays>>
       ELSE \E ctrl \in DigCtrl1Reads(x_dig_ctrl1) :
              /\ x_dig_ctrl1' = ctrl
              /\ IF XPCS_VR_XS_PCS_DIG_CTRL1_USRA_RST \notin ctrl
                 THEN /\ x_log' = Append(x_log, "usra_cleared")
                      /\ x_pc' = "rlu_poll"
                      /\ x_count' = 0 /\ x_reads' = 0 /\ x_delays' = 0
                 ELSE /\ x_count' = x_count + 1
                      /\ x_reads' = x_reads + 1
                      /\ x_delays' = x_delays + 1
                      /\ UNCHANGED <<x_pc, x_log>>
              /\ UNCHANGED <<x_ret, x_status>>
    /\ UNCHANGED <<x_mii_ctrl, x_an_sts, x_pcs_ctrl2, x_an_ctrl, x_op>>
    /\ x_start_fail' = IF x_count > retry
                       THEN [x_start_fail EXCEPT !.timeout = x_ret']
                       ELSE x_start_fail
    /\ UNCHANGED <<dmaVars, mmcVars, eeeVars, slotVars, wdtVars>>

\* Lines 171-185 with the count of line 176 left out.
xpcs_rlu_poll_NoCount ==
    /\ x_pc = "rlu_poll"
    /\ IF x_count > retry
       THEN /\ XpcsReturn(FAIL)
            /\ UNCHANGED <<x_log, x_reads, x_delays>>
       ELSE \E sts \in SUBSET {XPCS_SR_XS_PCS_STS1_RLU} :
              /\ x_reads' = x_reads + 1
              /\ IF XPCS_SR_XS_PCS_STS1_RLU \in sts
                 THEN /\ x_log' = Append(x_log, "rlu_up")
                      /\ XpcsReturn(OK)
                      /\ UNCHANGED x_delays
                 ELSE /\ x_delays' = x_delays + 1
                      /\ UNCHANGED <<x_pc, x_count, x_log, x_ret, x_status>>
    /\ UNCHANGED <<x_mii_ctrl, x_an_sts, x_dig_ctrl1, x_pcs_ctrl2, x_an_ctrl,
                   x_op>>
    /\ x_start_fail' = IF x_count > retry
                       THEN [x_start_fail EXCEPT !.timeout = x_ret']
                       ELSE x_start_fail
    /\ UNCHANGED <<dmaVars, mmcVars, eeeVars, slotVars, wdtVars>>

\* Lines 171-187, one iteration: the ceiling test, the count, the read of
\* XPCS_SR_XS_PCS_STS1 (the hardware decides RLU) and either the return of 0
\* or the delay.
xpcs_rlu_poll ==
    /\ x_pc = "rlu_poll"
    /\ IF x_count > retry
       THEN /\ XpcsReturn(FAIL)
            /\ UNCHANGED <<x_log, x_reads, x_delays>>
       ELSE \E sts \in SUBSET {XPCS_SR_XS_PCS_STS1_RLU} :
              /\ x_reads' = x_reads + 1
              /\ IF XPCS_SR_XS_PCS_STS1_RLU \in sts
                 THEN /\ x_log' = Append(x_log, "rlu_up")
                      /\ XpcsReturn(OK)
                      /\ UNCHANGED x_delays
                 ELSE /\ x_count' = x_count + 1
                      /\ x_delays' = x_delays + 1
                      /\ UNCHANGED <<x_pc, x_log, x_ret, x_status>>
    /\ UNCHANGED <<x_mii_ctrl, x_an_sts, x_dig_ctrl1, x_pcs_ctrl2, x_an_ctrl,
                   x_op>>
    /\ x_start_fail' = IF x_count > retry
                       THEN [x_start_fail EXCEPT !.timeout = x_ret']
                       ELSE x_start_fail
    /\ UNCHANGED <<dmaVars, mmcVars, eeeVars, slotVars, wdtVars>>

xpcs_start ==
    \/ xpcs_start_an_enable
    \/ xpcs_an_poll
    \/ xpcs_an_check
    \/ xpcs_start_set_speed
    \/ xpcs_start_usra_assert
    \/ xpcs_usra_poll
    \/ xpcs_rlu_poll

(* ------------------------ xpcs_init, stepwise ------------------------- *)

\* Lines 202-215: the call begins; BASE-R mode selected.
xpcs_init_base_r ==
    /\ x_pc = "idle"
    /\ x_op' = "init" /\ x_ret' = NoReturn
    /\ x_pcs_ctrl2' = x_pcs_ctrl2 \cup {XPCS_SR_XS_PCS_CTRL2_PCS_TYPE_SEL_BASE_R}
    /\ x_log' = <<"base_r">>
    /\ x_pc' = "vr_rst"
    /\ x_count' = 0 /\ x_status' = ZeroStatus
    /\ x_reads' = 0 /\ x_delays' = 0
    /\ UNCHANGED <<x_mii_ctrl, x_an_sts, x_dig_ctrl1, x_an_ctrl>>
    /\ UNCHANGED x_start_fail
    /\ UNCHANGED <<dmaVars, mmcVars, eeeVars, slotVars, wdtVars>>

\* Lines 224-227 and 232-233: USXGMII mode enabled and the vendor specific
\* software reset issued; the count of the loop that follows set to 0.
xpcs_init_vr_rst ==
    /\ x_pc = "vr_rst"
    /\ \E ctrl \in DigCtrl1Reads(x_dig_ctrl1) :
          x_dig_ctrl1' = ctrl \cup {XPCS_VR_XS_PCS_DIG_CTRL1_USXG_EN,
                                    XPCS_VR_XS_PCS_DIG_CTRL1_VR_RST}
    /\ x_log' = Append(x_log, "vr_rst")
    /\ x_pc' = "vr_poll"
    /\ x_count' = 0
    /\ UNCHANGED <<x_mii_ctrl, x_an_sts, x_pcs_ctrl2, x_an_ctrl, x_op,
                   x_status, x_ret, x_reads, x_delays>>
    /\ UNCHANGED x_start_fail
    /\ UNCHANGED <<dmaVars, mmcVars, eeeVars, slotVars, wdtVars>>

\* Lines 234-247 with the return of line 236 left out: past the ceiling
\* the call goes on to the backplane configuration.
xpcs_vr_poll_NoReturn ==
    /\ x_pc = "vr_poll"
    /\ IF x_count > retry
       THEN /\ x_pc' = "bp_an"
            /\ UNCHANGED <<x_dig_ctrl1, x_count, x_log, x_reads, x_delays,
                           x_ret, x_status>>
       ELSE \E ctrl \in DigCtrl1Reads(x_dig_ctrl1) :
              /\ x_dig_ctrl1' = ctrl
              /\ x_count' = x_count + 1
              /\ x_reads' = x_reads + 1
              /\ IF XPCS_VR_XS_PCS_DIG_CTRL1_VR_RST \notin ctrl
                 THEN /\ x_log' = Append(x_log, "vr_rst_cleared")
                      /\ x_pc' = "bp_an"
                      /\ UNCHANGED x_delays
                 ELSE /\ x_delays' = x_delays + 1
                      /\ UNCHANGED <<x_pc, x_log>>
              /\ UNCHANGED <<x_ret, x_status>>
    /\ UNCHANGED <<x_mii_ctrl, x_an_sts, x_pcs_ctrl2, x_an_ctrl, x_op>>
    /\ UNCHANGED x_start_fail
    /\ UNCHANGED <<dmaVars, mmcVars, eeeVars, slotVars, wdtVars>>

\* Lines 234-247, one iteration: the ceiling test, the count, the read of
\* XPCS_VR_XS_PCS_DIG_CTRL1 and either the exit or the delay.
xpcs_vr_poll ==
    /\ x_pc = "vr_poll"
    /\ IF x_count > retry
       THEN /\ XpcsReturn(FAIL)
            /\ UNCHANGED <<x_dig_ctrl1, x_log, x_reads, x_delays>>
       ELSE \E ctrl \in DigCtrl1Reads(x_dig_ctrl1) :
              /\ x_dig_ctrl1' = ctrl
              /\ x_count' = x_count + 1
              /\ x_reads' = x_reads + 1
              /\ IF XPCS_VR_XS_PCS_DIG_CTRL1_VR_RST \notin ctrl
                 THEN /\ x_log' = Append(x_log, "vr_rst_cleared")
                      /\ x_pc' = "bp_an"
                      /\ UNCHANGED x_delays
                 ELSE /\ x_delays' = x_delays + 1
                      /\ UNCHANGED <<x_pc, x_log>>
              /\ UNCHANGED <<x_ret, x_status>>
    /\ UNCHANGED <<x_mii_ctrl, x_an_sts, x_pcs_ctrl2, x_an_ctrl, x_op>>
    /\ UNCHANGED x_start_fail
    /\ UNCHANGED <<dmaVars, mmcVars, eeeVars, slotVars, wdtVars>>

\* Lines 253-255: AN_EN cleared in XPCS_SR_AN_CTRL.
xpcs_init_bp_an ==
    /\ x_pc = "bp_an"
    /\ x_an_ctrl' = x_an_ctrl \ {XPCS_SR_AN_CTRL_AN_EN}
    /\ x_log' = Append(x_log, "an_en_cleared")
    /\ x_pc' = "bp_cl37"
    /\ UNCHANGED <<x_mii_ctrl, x_an_sts, x_dig_ctrl1, x_pcs_ctrl2, x_op,
                   x_count, x_status, x_ret, x_reads, x_delays>>
    /\ UNCHANGED x_start_fail
    /\ UNCHANGED <<dmaVars, mmcVars, eeeVars, slotVars, wdtVars>>

\* Lines 257-270: CL37_BP set in XPCS_VR_XS_PCS_DIG_CTRL1, 0 returned.
xpcs_init_bp_cl37 ==
    /\ x_pc = "bp_cl37"
    /\ \E ctrl \in DigCtrl1Reads(x_dig_ctrl1) :
          x_dig_ctrl1' = ctrl \cup {XPCS_VR_XS_PCS_DIG_CTRL1_CL37_BP}
    /\ x_log' = Append(x_log, "cl37_bp_set")
    /\ XpcsReturn(OK)
    /\ UNCHANGED <<x_mii_ctrl, x_an_sts, x_pcs_ctrl2, x_an_ctrl, x_op,
                   x_reads, x_delays>>
    /\ UNCHANGED x_start_fail
    /\ UNCHANGED <<dmaVars, mmcVars, eeeVars, slotVars, wdtVars>>

xpcs_init ==
    \/ xpcs_init_base_r
    \/ xpcs_init_vr_rst
    \/ xpcs_vr_poll
    \/ xpcs_init_bp_an
    \/ xpcs_init_bp_cl37

(* --------------------------- specifications --------------------------- *)

InitChannels ==
    \E chans \in ChanLists, rbl \in RxBufLens : eqos_init_dma_channel(chans, rbl)

PlainWrite ==
    \E a \in Regs, val \in Word : DirectWrite(a, val)

DebugIntrConfig ==
    \E enable \in {OSI_ENABLE, OSI_DISABLE} : eqos_debug_intr_config(enable)

\* The component with registers written only through the shadow-write path.
NextSafe ==
    \/ InitChannels
    \/ eqos_dma_safety_writel
    \/ eqos_validate_dma_regs

SpecSafe == Init /\ [][NextSafe]_vars

\* The component's own operations, the debug interrupt configuration
\* included.
NextOwn ==
    \/ NextSafe
    \/ DebugIntrConfig

SpecOwn == Init /\ [][NextOwn]_vars

\* The component together with plain writes to its tracked registers.
Next ==
    \/ NextOwn
    \/ PlainWrite

Spec == Init /\ [][Next]_vars

\* A (re-)initialisation that runs while the validator runs.
NextReinit ==
    \/ eqos_init_dma_channel_steps
    \/ eqos_validate_dma_regs

SpecReinit == Init /\ [][NextReinit]_vars

\* The statistics accumulator: one context reads and resets the counters.
NextMmc ==
    \/ eqos_read_mmc
    \/ eqos_reset_mmc

SpecMmc == InitMmc /\ [][NextMmc]_vars

\* The PCS bring-up: one context calls xpcs_init and xpcs_start, in any
\* order, one call at a time; the hardware decides every status read.
NextXpcs ==
    \/ xpcs_init
    \/ xpcs_start

SpecXpcs == InitXpcs /\ [][NextXpcs]_vars

\* The bring-up with a scheduler that lets the running call take its next
\* step.
SpecXpcsFair == SpecXpcs /\ WF_vars(NextXpcs)

\* The slot control registers hold whatever earlier configuration left.
InitSlot ==
    /\ InitDma /\ InitMmcRest /\ abi = "LP64"
    /\ InitXpcsRest /\ InitEeeRest /\ InitWdtRest
    /\ slot_ctrl \in [Chans -> SUBSET SlotRegBits]
    /\ s_arg = <<>> /\ s_prev = slot_ctrl

\* Slot scheduling: any channel, any flag, any interval, one call at a time.
ConfigSlot ==
    \E chan \in Chans, set \in EnDisValues, interval \in SUBSET IntervalBits :
        eqos_config_slot(chan, set, interval)

NextSlot == ConfigSlot

SpecSlot == InitSlot /\ [][NextSlot]_vars

\* The EEE control register holds whatever earlier configuration left.
InitEee ==
    /\ InitDma /\ InitMmcRest /\ abi = "LP64"
    /\ InitXpcsRest /\ InitSlotRest /\ InitWdtRest
    /\ x_eee \in SUBSET EeeMctrl0Bits
    /\ InitEeeState

\* Low power idle: xpcs_eee called with any value of en_dis.
xpcs_eee ==
    \/ \E en_dis \in EnDisValues : xpcs_eee_enter(en_dis)
    \/ xpcs_eee_read
    \/ xpcs_eee_write

NextEee == xpcs_eee

SpecEee == InitEee /\ [][NextEee]_vars

\* The caller's watchdog parameters are any flag and any microsecond value;
\* each watchdog register holds its power-on value or has every bit set
\* but the tick unit.
InitWdt ==
    /\ InitDma /\ InitMmcRest /\ abi = "LP64"
    /\ InitXpcsRest /\ InitEeeRest /\ InitSlotRest
    /\ use_riwt \in {OSI_ENABLE, OSI_DISABLE}
    /\ rx_riwt \in 0 .. (NVEU32_MOD - 1)
    /\ rx_wdt \in [Chans -> {[rwt |-> 0, rwtu |-> "0", oth |-> FALSE],
                             [rwt |-> EQOS_DMA_CHX_RX_WDT_RWT_MASK,
                              rwtu |-> "0", oth |-> TRUE]}]

\* Channel initialisation with the watchdog parameters of osi_dma.
NextWdt == InitChannels

SpecWdt == InitWdt /\ [][NextWdt]_vars

(* ------------------------------ properties ---------------------------- *)

\* The populated slots of the shadow table.
Populated == {i \in Slots : reg_addr[i] # OSI_NULL}

\* The current hardware value of populated slot i under the slot's mask.
MaskedHw(i) == hw[reg_addr[i]] \cap reg_mask[i]

\* A validate has returned and nothing has changed the registers or the
\* table since it began.
ValidateReturned == v_pc = "idle" /\ v_ret # NoReturn /\ ~v_stale

\* C1: with registers written only through eqos_dma_safety_writel, while the
\* validator scans the table the writer is never between its hardware write
\* and its lock release (so no slot is compared between the hardware write
\* and the shadow update), and no validate returns -1.
C1_NoTornCompare ==
    /\ v_pc = "loop" => w_pc = "idle"
    /\ w_pc # "idle" => v_pc = "idle"
    /\ v_ret # Returned(FAIL)

\* C1 witness: the validator is inside its scan, past the read of a
\* populated slot, after a shadow write has completed; the lock it holds
\* keeps the writer out.
C1_Witness ==
    /\ v_pc = "loop" /\ v_reads > 0
    /\ v_prev = <<"sw">>
    /\ dma_safety_lock = OSI_LOCKED

\* C2: a validate that begins right after a completed
\* eqos_dma_safety_writel (registers written only through it) returns 0, and
\* whenever no shadow write is in progress every populated slot's masked
\* hardware value equals its shadow value.
C2_SafeWriteThenValidate ==
    /\ (v_pc = "idle" /\ v_ret # NoReturn /\ v_prev = <<"sw">>) => v_ret = Returned(OK)
    /\ (w_pc = "idle") => \A i \in Populated : MaskedHw(i) = reg_val[i]

\* C2 witness: validate returned 0 after two shadow writes, one of which
\* left a bit outside the slot's mask set in the hardware register.
C2_Witness ==
    /\ v_pc = "idle" /\ v_ret = Returned(OK) /\ v_prev = <<"sw">>
    /\ ops >= 3
    /\ \E i \in Populated : "b2" \in hw[reg_addr[i]]

\* A validate has returned that began right after a plain write to the
\* register of a slot that is populated.
ValidateAfterDirectWrite ==
    /\ ValidateReturned
    /\ \E i \in Populated : v_prev = <<"dw", reg_addr[i]>>

\* C3 as stated: a plain write to a populated slot's register followed by
\* validate always makes validate return -1.
C3_Original ==
    ValidateAfterDirectWrite => v_ret = Returned(FAIL)

\* C3 amended: a plain write to a populated slot's register followed by
\* validate makes validate return -1 whenever the register then differs from
\* the slot's shadow value in a bit of the slot's mask; when every populated
\* slot's masked value equals its shadow value (the plain write changed only
\* bits outside the mask, or wrote the tracked value again) validate
\* returns 0.
C3_DirectWriteDetectedIffMaskedBitsDiffer ==
    ValidateAfterDirectWrite =>
        /\ (\E i \in Populated :
              /\ v_prev = <<"dw", reg_addr[i]>>
              /\ MaskedHw(i) # reg_val[i]) => v_ret = Returned(FAIL)
        /\ (\A i \in Populated : MaskedHw(i) = reg_val[i]) => v_ret = Returned(OK)

\* C3 witness: the plain write changed a masked bit of a populated slot and
\* the validate that followed returned -1.
C3_Witness ==
    /\ ValidateAfterDirectWrite
    /\ v_ret = Returned(FAIL)
    /\ \E i \in Populated :
          v_prev = <<"dw", reg_addr[i]>> /\ MaskedHw(i) # reg_val[i]

\* C4: after any sequence of the component's own operations
\* (eqos_init_dma_channel, eqos_dma_safety_writel, eqos_debug_intr_config) a
\* validate returns 0.
C4_OwnOperationsKeepShadow ==
    ValidateReturned => v_ret = Returned(OK)

\* C5: while the validator scans the table it holds the lock and no
\* (re-)initialisation is clearing, populating or seeding the table or
\* re-initialising the lock.
C5_InitUnderLock ==
    v_pc = "loop" =>
        /\ dma_safety_lock = OSI_LOCKED
        /\ i_pc \notin {"populate", "seed", "lockinit"}

\* C6: a validate over a table with no populated slot returns 0 and reads
\* no hardware register, whatever the stale masks and values.
C6_EmptyTableValidates ==
    (v_pc = "idle" /\ v_ret # NoReturn /\ Populated = {}) =>
        v_ret = Returned(OK) /\ v_reads = 0

\* C6 witness: validate returned 0 over a table emptied by an
\* initialisation with no active channel, whose slots keep the masks and
\* values of an earlier initialisation.
C6_Witness ==
    /\ v_pc = "idle" /\ v_ret = Returned(OK) /\ v_reads = 0
    /\ Populated = {}
    /\ dma_chans = <<>> /\ v_prev = <<"init">>
    /\ \E i \in Slots : reg_mask[i] # {} /\ reg_val[i] # {}

\* C7: validate returns 0 exactly when every populated slot's masked
\* hardware value equals its shadow value, and returns -1 at the first
\* populated slot where they differ.
C7_ValidateIffAllMatch ==
    ValidateReturned =>
        /\ v_ret = Returned(OK) <=> \A i \in Populated : MaskedHw(i) = reg_val[i]
        /\ v_ret = Returned(FAIL) =>
              /\ v_i \in Populated
              /\ MaskedHw(v_i) # reg_val[v_i]
              /\ \A j \in Populated : j < v_i => MaskedHw(j) = reg_val[j]

\* C7 witness: validate returned 0 although a populated slot's register
\* differs from the shadow value in a bit outside the mask.
C7_Witness ==
    /\ ValidateReturned /\ v_ret = Returned(OK) /\ v_reads > 0
    /\ \E i \in Populated : hw[reg_addr[i]] # reg_val[i]

\* C8: after any number of eqos_read_mmc passes in which no sum left the
\* range of the counter, every counter holds the sum of the values read from
\* its own hardware register since the last reset.
C8_AccumulatesOwnRegister ==
    (m_k = 0 /\ ~m_ovf) => \A c \in Counters : mmc[c] = m_own[c]

\* C9: when an eqos_read_mmc pass in which some sum left the range of the
\* counter returns, every counter is zero and MMC_CNTRL.CNTRST was written
\* exactly once during the pass.
C9_OverflowResetsAll ==
    (m_k = 0 /\ m_pass_ovf) => (mmc = ZeroCounters /\ m_pass_rst = 1)

\* C10: in every step that is not a reset (explicit or taken on overflow) no
\* counter decreases.
C10_MonotonicBetweenResets ==
    [][m_rst_tick' = m_rst_tick => \A c \in Counters : mmc'[c] >= mmc[c]]_vars

\* C11: every eqos_read_mmc assignment that takes no overflow reset stores
\* the exact sum of the accumulated value and the register value, never that
\* sum modulo the width of the counter.
C11_NoWrappedCommit ==
    [][(m_k' # m_k /\ m_rst_tick' = m_rst_tick) =>
          \E v \in RegValues :
             mmc'[MmcUpdates[m_k + 1].dst] = mmc[MmcUpdates[m_k + 1].src] + v]_vars


\* The stages of xpcs_start in program order, as the log records them.
FullStartLog ==
    <<"an_complete", "an_cleared", "speed_set", "usra_asserted",
      "usra_cleared", "rlu_up">>

\* The stages of xpcs_init in program order, as the log records them.
FullInitLog ==
    <<"base_r", "vr_rst", "vr_rst_cleared", "an_en_cleared", "cl37_bp_set">>

\* An xpcs_start call has returned and no call is running.
StartReturned == x_op = "start" /\ x_pc = "idle" /\ x_ret # NoReturn

\* An xpcs_init call has returned and no call is running.
InitReturned == x_op = "init" /\ x_pc = "idle" /\ x_ret # NoReturn

\* C12: when AN-complete never sets, xpcs_start returns the timeout failure
\* after exactly retry reads of the AN status register, each followed by one
\* delay: not one fewer and not one more.
C12_AnTimeoutAfterRetryPolls ==
    (StartReturned /\ x_ret = Returned(FAIL) /\ x_log = <<>>) =>
        (x_reads = retry /\ x_delays = retry)

\* C13: when autonegotiation completed with a zero speed field, xpcs_start
\* returns failure and no later stage runs: the speed select bits are not
\* written, the rate adaptor reset is not asserted and link status is not
\* polled.
C13_ZeroSpeedFailsEarly ==
    (x_op = "start" /\ Len(x_log) >= 2 /\ x_an_sts.speed = "0") =>
        /\ x_log = SubSeq(FullStartLog, 1, 2)
        /\ x_pc \in {"an_check", "idle"}
        /\ x_pc = "idle" => x_ret = Returned(FAIL)

C13_Witness ==
    /\ StartReturned /\ x_ret = Returned(FAIL)
    /\ x_log = SubSeq(FullStartLog, 1, 2) /\ x_an_sts.speed = "0"

\* The documented speed select pattern of each negotiated speed.
SpeedPattern(speed) ==
    CASE speed = XPCS_USXG_AN_STS_SPEED_2500 -> {XPCS_SR_MII_CTRL_SS5}
      [] speed = XPCS_USXG_AN_STS_SPEED_5000 ->
            {XPCS_SR_MII_CTRL_SS5, XPCS_SR_MII_CTRL_SS13}
      [] speed = XPCS_USXG_AN_STS_SPEED_10000 ->
            {XPCS_SR_MII_CTRL_SS6, XPCS_SR_MII_CTRL_SS13}

NegotiatedSpeeds ==
    {XPCS_USXG_AN_STS_SPEED_2500, XPCS_USXG_AN_STS_SPEED_5000,
     XPCS_USXG_AN_STS_SPEED_10000}

\* C14: for each of the speeds 2.5G, 5G and 10G the speed programming step
\* leaves in the three speed select bits of XPCS_SR_MII_CTRL the pattern of
\* that speed whatever the register held before, the three patterns are
\* pairwise distinct, and every other bit of the register is unchanged.
C14_SpeedPatternOnly ==
    [][(x_pc = "set_speed" /\ x_pc' # "set_speed") =>
          /\ x_mii_ctrl' \ SpeedSelectBits = x_mii_ctrl \ SpeedSelectBits
          /\ x_status.speed \in NegotiatedSpeeds =>
                x_mii_ctrl' \cap SpeedSelectBits = SpeedPattern(x_status.speed)
          /\ \A s1, s2 \in NegotiatedSpeeds :
                s1 # s2 => SpeedPattern(s1) # SpeedPattern(s2)]_vars

C14_Witness ==
    /\ x_pc = "usra_assert" /\ x_status.speed = XPCS_USXG_AN_STS_SPEED_2500
    /\ x_mii_ctrl = {XPCS_SR_MII_CTRL_AN_ENABLE, XPCS_SR_MII_CTRL_SS5, "oth"}

\* C15: xpcs_start runs its stages in program order; it returns success only
\* with every stage done (AN-complete seen and cleared, speed programmed,
\* rate adaptor reset asserted and seen cleared, link up seen), and a failed
\* poll stage returns failure with no later stage run.
C15_AllStagesOrFailure ==
    /\ x_op = "start" =>
          \E n \in 0..Len(FullStartLog) : x_log = SubSeq(FullStartLog, 1, n)
    /\ StartReturned =>
          /\ x_ret = Returned(OK) => x_log = FullStartLog
          /\ x_ret = Returned(FAIL) =>
                \E n \in {0, 2, 4, 5} : x_log = SubSeq(FullStartLog, 1, n)

C15_Witness ==
    StartReturned /\ x_ret = Returned(OK) /\ x_log = FullStartLog

\* C16: whatever the status registers return, a running xpcs_init or
\* xpcs_start returns success or failure: no poll stage reads its status
\* register more than retry + 1 times, each stage counting from zero.
C16_BoundedPollsTerminate ==
    /\ [](x_reads <= retry + 1 /\ x_count <= retry + 1)
    /\ (x_pc # "idle") ~> (x_pc = "idle" /\ x_ret # NoReturn)

C16_Witness ==
    x_op = "start" /\ x_pc = "rlu_poll" /\ x_count = retry + 1

\* C17: xpcs_init returns failure exactly when every poll of the vendor
\* software reset bit found it set; on that failure neither backplane step
\* ran; on success both ran, after the reset was seen complete.
C17_InitFailsIffResetStuck ==
    InitReturned =>
        /\ x_ret = Returned(FAIL) <=> (x_reads = x_delays)
        /\ x_ret = Returned(FAIL) => x_log = SubSeq(FullInitLog, 1, 2)
        /\ x_ret = Returned(OK) =>
              /\ x_log = FullInitLog
              /\ XPCS_SR_AN_CTRL_AN_EN \notin x_an_ctrl
              /\ XPCS_VR_XS_PCS_DIG_CTRL1_CL37_BP \in x_dig_ctrl1

C17_Witness ==
    /\ InitReturned /\ x_ret = Returned(FAIL)
    /\ x_log = SubSeq(FullInitLog, 1, 2) /\ x_reads = retry + 1
    /\ XPCS_SR_AN_CTRL_AN_EN \in x_an_ctrl


\* The value of the SIV field of a slot register word.
SlotFieldValue(w) ==
    WordValue({b - EQOS_DMA_CHX_SLOT_SIV_SHIFT : b \in w \cap SlotFieldBits})

\* The largest value the SIV field holds.
SlotFieldMax == 2^SivBits - 1

\* C18: eqos_config_slot with OSI_DISABLE, for any channel and interval,
\* clears ESC in the channel's slot register and leaves the SIV field and
\* every other bit of it, and every other channel's register, unchanged.
C18_DisableClearsOnlyEnable ==
    (s_arg # <<>> /\ s_arg[2] = OSI_DISABLE) =>
        \A ch \in Chans :
           IF ch = s_arg[1]
           THEN /\ slot_ctrl[ch] \cap EQOS_DMA_CHX_SLOT_ESC = {}
                /\ slot_ctrl[ch] \ EQOS_DMA_CHX_SLOT_ESC
                      = s_prev[ch] \ EQOS_DMA_CHX_SLOT_ESC
           ELSE slot_ctrl[ch] = s_prev[ch]

C18_Witness ==
    /\ s_arg # <<>> /\ s_arg[2] = OSI_DISABLE /\ s_arg[3] # {}
    /\ s_prev[s_arg[1]] = SlotRegBits
    /\ slot_ctrl[s_arg[1]] = SlotRegBits \ EQOS_DMA_CHX_SLOT_ESC

\* C19: eqos_config_slot with OSI_ENABLE sets ESC and leaves in the SIV
\* field the interval clamped to the range of the field: the interval itself
\* when it fits, the largest value of the field when it does not.
C19_EnableStoresClampedInterval ==
    (s_arg # <<>> /\ s_arg[2] = OSI_ENABLE) =>
        LET w        == slot_ctrl[s_arg[1]]
            interval == WordValue(s_arg[3])
        IN  /\ EQOS_DMA_CHX_SLOT_ESC \subseteq w
            /\ SlotFieldValue(w) = IF interval <= SlotFieldMax
                                   THEN interval
                                   ELSE SlotFieldMax

\* C20: xpcs_eee called with a value that is neither OSI_ENABLE nor
\* OSI_DISABLE returns -1 without a read or a write of
\* XPCS_VR_XS_PCS_EEE_MCTRL0, whose content stays as it was.
C20_InvalidArgumentNoAccess ==
    (e_arg \notin {NONE, OSI_ENABLE, OSI_DISABLE}) =>
        /\ e_pc = "idle" /\ e_ret = Returned(FAIL)
        /\ e_reads = 0 /\ e_writes = 0
        /\ x_eee = e_prev

C20_Witness ==
    /\ e_arg = "other" /\ e_ret = Returned(FAIL) /\ e_pc = "idle"
    /\ x_eee = EeeMctrl0Bits \ {XPCS_VR_XS_PCS_EEE_MCTRL0_LRX_EN}

\* An xpcs_eee call has returned 0 and no call is running.
EeeReturnedOk == e_pc = "idle" /\ e_ret = Returned(OK)

\* The two enable bits a successful xpcs_eee(en_dis) leaves.
EeeTarget(en_dis) == IF en_dis = OSI_DISABLE THEN {} ELSE EeeEnables

\* C21: a successful xpcs_eee ends with LTX_EN and LRX_EN both clear after
\* OSI_DISABLE and both set after OSI_ENABLE, by one read and one write of
\* XPCS_VR_XS_PCS_EEE_MCTRL0 that leave every other bit as it was; the two
\* bits depend on the last call only, and a call that finds them already as
\* it leaves them changes nothing.
C21_EeeSetsBothBitsOnly ==
    EeeReturnedOk =>
        /\ e_arg \in {OSI_ENABLE, OSI_DISABLE}
        /\ e_reads = 1 /\ e_writes = 1
        /\ x_eee \cap EeeEnables = EeeTarget(e_arg)
        /\ x_eee \ EeeEnables = e_prev \ EeeEnables
        /\ e_prev \cap EeeEnables = EeeTarget(e_arg) => x_eee = e_prev

C21_Witness ==
    /\ EeeReturnedOk /\ e_arg = OSI_ENABLE
    /\ e_prev = {XPCS_VR_XS_PCS_EEE_MCTRL0_LRX_EN, "oth"}
    /\ x_eee = EeeEnables \cup {"oth"}

\* C22: eqos_reset_mmc, called in any state between two passes, leaves
\* every counter of the structure at zero and writes EQOS_MMC_CNTRL once,
\* with CNTRST set and every other bit as the register held it.
C22_ResetZeroesAndWritesOnce ==
    [][(m_rst_tick' # m_rst_tick /\ m_k' = m_k) =>
          /\ mmc' = ZeroCounters
          /\ m_rst_writes' = <<mmc_cntrl \cup {EQOS_MMC_CNTRL_CNTRST}>>]_vars

C22_Witness ==
    /\ m_k = 0 /\ m_rst_dirty /\ mmc = ZeroCounters
    /\ m_rst_writes = <<MmcCntrlBits>>

\* C23: the value xpcs_start returns when a poll exhausted its retry ceiling
\* and the value it returns when autonegotiation completed with zero speed
\* are different, so the caller can tell the two failures apart.
C23_FailureKindsDiffer ==
    (x_start_fail.timeout # NoReturn /\ x_start_fail.zero_speed # NoReturn) =>
        x_start_fail.timeout # x_start_fail.zero_speed

\* C26: when autonegotiation completed with a speed field that is not zero
\* and is neither the 2.5G nor the 5G encoding, xpcs_start goes on past the
\* speed test and programs the 10G speed select pattern.
C26_OtherSpeedProgramsTenGig ==
    /\ [][(x_pc = "an_check" /\ x_status.speed # "0") =>
             (x_pc' = "set_speed" /\ x_ret' = NoReturn)]_vars
    /\ []((x_op = "start" /\ Len(x_log) >= 3
             /\ x_an_sts.speed \notin {XPCS_USXG_AN_STS_SPEED_2500,
                                       XPCS_USXG_AN_STS_SPEED_5000}) =>
            x_mii_ctrl \cap SpeedSelectBits
               = {XPCS_SR_MII_CTRL_SS6, XPCS_SR_MII_CTRL_SS13})

C26_Witness ==
    /\ StartReturned /\ x_ret = Returned(OK) /\ x_log = FullStartLog
    /\ x_an_sts.speed = "other"
    /\ x_mii_ctrl \cap SpeedSelectBits
          = {XPCS_SR_MII_CTRL_SS6, XPCS_SR_MII_CTRL_SS13}

\* The slots of the six monitored register classes of the channels of list l.
ActiveSlots(l) == {ClassBase(c) + ch : c \in ClassSet, ch \in Range(l)}

\* eqos_init_dma_channel has returned and nothing has touched the registers
\* or the table since.
InitChannelReturned == last_op = <<"init">> /\ w_pc = "idle" /\ i_pc = "idle"

\* C24: after eqos_init_dma_channel returns, the populated slots are exactly
\* the slots of the six monitored register classes of the channels of the
\* list given to that call (slots an earlier initialisation populated for
\* other channels are unpopulated again), and every populated slot's shadow
\* value is the current value of its register under the slot's mask.
C24_InitPopulatesActiveChannels ==
    InitChannelReturned =>
        /\ {i \in Slots : reg_addr[i] # OSI_NULL} = ActiveSlots(dma_chans)
        /\ \A i \in ActiveSlots(dma_chans) :
              reg_val[i] = hw[reg_addr[i]] \cap reg_mask[i]

C24_Witness ==
    /\ InitChannelReturned /\ dma_chans = <<1>>
    /\ reg_mask[EQOS_DMA_CH0_CTRL_IDX] # {}
    /\ reg_addr[EQOS_DMA_CH0_CTRL_IDX] = OSI_NULL
    /\ reg_addr[EQOS_DMA_CH0_CTRL_IDX + 1] = RegAddr("CTRL", 1)

\* The watchdog parameters eqos_configure_dma_channel accepts as in range.
RiwtAccepted == use_riwt = OSI_ENABLE /\ rx_riwt < NVEU32_MOD - 1

\* floor((usec * clock_ratio) / timer_unit) in unbounded arithmetic, masked
\* to the width of the RWT field.
ExactTicksMasked(usec) ==
    ((usec * (EQOS_AXI_CLK_FREQ \div OSI_ONE_MEGA_HZ))
        \div EQOS_DMA_CHX_RX_WDT_RWTU) % (EQOS_DMA_CHX_RX_WDT_RWT_MASK + 1)

\* The product usec * clock_ratio leaves the range of nveu32_t.
ProductWraps(usec) ==
    usec * (EQOS_AXI_CLK_FREQ \div OSI_ONE_MEGA_HZ) >= NVEU32_MOD

\* C25 as stated: for every accepted watchdog interval, after
\* eqos_init_dma_channel the RWT field of every active channel holds
\* floor((usec * clock_ratio) / timer_unit) computed without overflow and
\* masked to the field, and the 32-bit product usec * clock_ratio did not
\* wrap.
C25_Original ==
    (InitChannelReturned /\ RiwtAccepted) =>
        /\ \A ch \in Range(dma_chans) : rx_wdt[ch].rwt = ExactTicksMasked(rx_riwt)
        /\ ~ProductWraps(rx_riwt)

\* C25, amended: for every accepted watchdog interval, those whose 32-bit
\* product usec * clock_ratio wraps included, after eqos_init_dma_channel
\* the RWT field of every active channel holds
\* floor((usec * clock_ratio) / timer_unit) computed without overflow and
\* masked to the field, and the tick unit of 512 cycles is selected.
C25_WatchdogFieldExactModuloField ==
    (InitChannelReturned /\ RiwtAccepted) =>
        \A ch \in Range(dma_chans) :
           /\ rx_wdt[ch].rwt = ExactTicksMasked(rx_riwt)
           /\ rx_wdt[ch].rwtu = EQOS_DMA_CHX_RX_WDT_RWTU_512_CYCLE

C25_Witness ==
    /\ InitChannelReturned /\ RiwtAccepted /\ ProductWraps(rx_riwt)
    /\ dma_chans = <<0>>
    /\ rx_wdt[0].rwt = ExactTicksMasked(rx_riwt) /\ rx_wdt[0].rwt # 0

\* C27: the safety lock is balanced: whenever no eqos_dma_safety_writel and
\* no eqos_validate_dma_regs is in progress the lock is free, also after a
\* validate that returned -1 on a mismatch, and while one of them is in
\* progress the lock is held, so a later call of either is never blocked by
\* a call that has returned.
C27_LockBalanced ==
    /\ (w_pc = "idle" /\ v_pc = "idle") => dma_safety_lock = OSI_UNLOCKED
    /\ dma_safety_lock = OSI_LOCKED => (w_pc # "idle" \/ v_pc # "idle")

C27_Witness ==
    /\ w_pc = "idle" /\ v_pc = "idle" /\ v_ret = Returned(FAIL)
    /\ dma_safety_lock = OSI_UNLOCKED

\* The slot index of the eqos_dma_safety_writel call a step belongs to.
WritelStepIdx == IF w_pc = "idle" THEN w_idx' ELSE w_idx

\* The shadow values of the channels other than ch.
OtherChannelShadows(val, ch) ==
    [p \in {q \in ClassSet \X Chans : q[2] # ch} |->
        val[ClassBase(p[1]) + p[2]]]

\* C28: every step of eqos_dma_safety_writel(value, address, index) leaves
\* every slot address, every mask, every other slot's shadow value and every
\* other hardware register unchanged, and when it returns the register at
\* the address holds the value and the slot's shadow the masked value; the
\* slots of different (register class, channel) pairs of supported channels
\* are distinct, and eqos_configure_dma_channel of one channel leaves every
\* other channel's shadow value as it was.
C28_SafetyWriteFrame ==
    /\ [][w_pc' # w_pc =>
            /\ reg_addr' = reg_addr
            /\ reg_mask' = reg_mask
            /\ \A j \in Slots \ {WritelStepIdx} : reg_val'[j] = reg_val[j]
            /\ \A a \in Regs \ {reg_addr[WritelStepIdx]} : hw'[a] = hw[a]
            /\ w_pc = "unlock" =>
                  /\ hw[reg_addr[w_idx]] = w_val
                  /\ reg_val[w_idx] = w_val \cap reg_mask[w_idx]]_vars
    /\ [](/\ \A p, q \in ClassSet \X Chans :
                p # q => ClassBase(p[1]) + p[2] # ClassBase(q[1]) + q[2]
          /\ \A ch \in Chans, rbl \in RxBufLens :
                OtherChannelShadows(
                    ConfigureChannel([hw |-> hw, val |-> reg_val], reg_mask,
                                     ch, rbl).val, ch)
                    = OtherChannelShadows(reg_val, ch))

C28_Witness ==
    /\ w_pc = "unlock"
    /\ Len(dma_chans) = MaxChans
    /\ \E j \in Slots \ {w_idx} :
          reg_addr[j] # OSI_NULL /\ reg_val[j] # reg_val[w_idx]

=============================================================================
